---------------------------- MODULE Spec2Model ----------------------------
(***************************************************************************)
(* Ledger and reconciliation handlers of src/server.js (Express routes     *)
(* over a PostgreSQL store, the PayNecta collection API and the Statum     *)
(* airtime API).                                                           *)
(*                                                                         *)
(* The database tables and the handlers in progress are the state.  A      *)
(* handler gives up control at every await: one step of the model is one   *)
(* awaited statement (a query, or the call of a provider) of one handler,  *)
(* with the code that runs before the next await, and the statements of    *)
(* the requests handled together are taken in any order.                   *)
(* Money is in whole KES.  Text that the code pattern-matches (callback    *)
(* references, ids cast to text) is a sequence of one-character strings.   *)
(***************************************************************************)
EXTENDS Integers, Sequences, FiniteSets, Bags, TLC

\* ------------------------------------------------------------------ bounds

MaxUsers == 1
MaxTx == 2
MaxPending == 2
MaxNotifications == 3
MaxBalance == 80
MaxFaults == 1
MaxConcTx == 3
MaxInflight == 2
MaxCashRequests == 1
MaxSettleTx == 2
MaxRegUsers == 3
MaxCreditPending == 1
MaxConcNotifications == 2
MaxSettleBalance == 20
\* ------------------------------------------------------- program constants

MinDeposit == 10
MinAirtime == 5
DefaultBonusThreshold == 50
DefaultBonusAmount == 6
DefaultDiscountRate == 10
DefaultCashRate == 80

\* --------------------------------------------------------------- text

DigitChars == <<"0", "1", "2", "3", "4", "5", "6", "7", "8", "9">>

\* id::text, `${transactionId}`: the decimal text of a positive integer.
RECURSIVE Digits(_)
Digits(n) ==
    IF n < 10 THEN <<DigitChars[n + 1]>>
    ELSE Append(Digits(n \div 10), DigitChars[(n % 10) + 1])

DepPrefix == <<"D", "E", "P", "-">>
DirectPrefix == <<"D", "I", "R", "E", "C", "T", "-">>

\* reference: `DEP-${transactionId}` sent to PayNecta by the deposit route.
DepRef(id) == DepPrefix \o Digits(id)

\* reference: `DIRECT-${transactionId}` sent to PayNecta by the direct route.
DirectRef(id) == DirectPrefix \o Digits(id)

\* data.data.checkout_request_id: the correlation id PayNecta issues for the
\* payment opened for transaction id (M-Pesa ids start with letters).
CheckoutId(id) == <<"w", "s">> \o Digits(id)

\* data.request_id: the id Statum issues for a disbursement.
StatumRequestId(n) == <<"r", "q">> \o Digits(n)

\* SQL NULL in a text column.
NullText == <<"NULL">>

\* The value of a column the INSERT does not name (users.language,
\* users.theme): the default of the column.
ColumnDefault == "default"

\* pat occurs in s at position i.
OccursAt(s, pat, i) ==
    /\ i + Len(pat) - 1 <= Len(s)
    /\ \A k \in 1..Len(pat) : s[i + k - 1] = pat[k]

\* String.prototype.replace(pat, ''): the first occurrence of pat removed.
RemoveFirst(s, pat) ==
    IF \E i \in 1..Len(s) : OccursAt(s, pat, i)
    THEN LET i == CHOOSE j \in 1..Len(s) :
                     /\ OccursAt(s, pat, j)
                     /\ \A k \in 1..(j - 1) : ~OccursAt(s, pat, k)
         IN  SubSeq(s, 1, i - 1) \o SubSeq(s, i + Len(pat), Len(s))
    ELSE s

\* text LIKE '%body%' for a body without LIKE wildcards: body occurs in text
\* (an empty body matches every text).
Like(text, body) == \E i \in 1..(Len(text) + 1) : OccursAt(text, body, i)

\* ------------------------------------------------------------------ inputs

\* The usernames of requests; those of RegisterNames get registered.
Usernames == {"u1", "u2"}
RegisterNames == {"u1"}
Emails == {"e1"}
MpesaCodes == {"MP1"}

\* What await response.json() yields: "ok" is an answer that reports success
\* (data.success / status_code 200), "declined" an answer that does not,
\* "throw" a body that cannot be parsed.
ProviderOutcomes == {"ok", "declined", "throw"}

\* ------------------------------------------------------------------- state

VARIABLES
    users,              \* table users: id (1..Len) -> row
    transactions,       \* table transactions: id -> row
    pending_purchases,  \* table pending_purchases: id (1..Len) -> row, oldest first
    notifications,      \* table admin_notifications: a bag of rows
    system_settings,    \* table system_settings: setting_key -> setting_value,
                        \* for the keys that have a row
    nextTxId,           \* next value of the transactions id sequence
    faults,             \* number of statements that have thrown
    deposit_verifications,  \* table deposit_verifications: id (1..Len) -> row
    inflight,           \* the handlers in progress, each between two of its
                        \* awaited statements
    airtime_to_cash_requests  \* table airtime_to_cash_requests: id -> row

vars == <<users, transactions, pending_purchases, notifications,
          system_settings,
          nextTxId, faults, deposit_verifications, inflight,
          airtime_to_cash_requests>>

\* The tables a handler's statements read and write.
DB == [users |-> users, transactions |-> transactions,
       pending_purchases |-> pending_purchases,
       notifications |-> notifications, nextTxId |-> nextTxId,
       deposit_verifications |-> deposit_verifications,
       airtime_to_cash_requests |-> airtime_to_cash_requests,
       system_settings |-> system_settings]

\* --------------------------------------------------------- SQL statements

\* The lookup without its WHERE clause.
AllUserIds(db, username) == 1..Len(db.users)

\* SELECT id FROM users WHERE username = $1
UserIdsByName(db, username) ==
    {i \in 1..Len(db.users) : db.users[i].username = username}

\* INSERT INTO users (...) VALUES (..., 0.00, 0.00, 'active', ...)
InsertUser(db, username, email) ==
    [db EXCEPT !.users = Append(@, [username |-> username, email |-> email,
                                    balance |-> 0, status |-> "active",
                                    language |-> ColumnDefault,
                                    theme |-> ColumnDefault])]

\* INSERT INTO admin_notifications (user_id, title, ...)
InsertNotification(db, userId, title) ==
    [db EXCEPT !.notifications =
                   @ (+) SetToBag({[user_id |-> userId, title |-> title,
                                   is_read |-> FALSE]})]

\* INSERT INTO transactions (...) RETURNING id: the row gets the next value of
\* the id sequence.  applied records whether the balance statement that
\* belongs to the row has been executed.  No INSERT names the column
\* metadata: the row is created with metadata NULL (NullText); a statement
\* that assigns metadata leaves a JSON object, the sequence of those of its
\* keys that the model tells apart.
InsertTransaction(db, userId, type, amount, status, providerRef, applied) ==
    [db EXCEPT !.transactions = @ @@ (db.nextTxId :>
                    [user_id |-> userId, type |-> type, amount |-> amount,
                     status |-> status, provider_reference |-> providerRef,
                     mpesa_code |-> "", bonus |-> 0, applied |-> applied,
                     metadata |-> NullText]),
               !.nextTxId = @ + 1]

\* UPDATE transactions SET status = $1 ... WHERE id = $2
SetTxStatus(db, id, status) ==
    [db EXCEPT !.transactions[id].status = status]

\* UPDATE transactions SET provider_reference = $1 ... WHERE id = $2
SetTxProviderReference(db, id, ref) ==
    [db EXCEPT !.transactions[id].provider_reference = ref]

\* UPDATE transactions SET ..., metadata = $n WHERE id = $m, with
\* $n = JSON.stringify(data): the answer of the provider replaces what the
\* row held.
SetMetadata(db, id) ==
    [db EXCEPT !.transactions[id].metadata = <<>>]

\* UPDATE users SET balance = balance + $1 WHERE id = $2, executed on behalf
\* of transaction txId (0: of no row).
AddBalance(db, userId, delta, txId) ==
    [db EXCEPT !.users[userId].balance = @ + delta,
               !.transactions = IF txId \in DOMAIN @
                                THEN [@ EXCEPT ![txId].applied = TRUE] ELSE @]

\* INSERT INTO pending_purchases (user_id, target_phone, amount, 'balance', 'pending')
InsertPendingPurchase(db, userId, amount) ==
    [db EXCEPT !.pending_purchases =
                   Append(@, [user_id |-> userId, amount |-> amount,
                              status |-> "pending"])]

\* await getSystemSetting(key) || default.  getSystemSetting is SELECT
\* setting_value FROM system_settings WHERE setting_key = $1 and returns
\* result.rows[0]?.setting_value || null: the value of the row the key has,
\* and without a row null, for which the caller takes its default.
Setting(db, key, default) ==
    IF key \in DOMAIN db.system_settings
    THEN db.system_settings[key] ELSE default

\* updateSystemSetting(key, value): UPDATE system_settings SET setting_value
\* = $1, updated_at = NOW() WHERE setting_key = $2, which updates the row of
\* the key and no row when the key has none; no statement inserts one.
updateSystemSetting(db, key, value) ==
    IF key \in DOMAIN db.system_settings
    THEN [db EXCEPT !.system_settings[key] = value] ELSE db

\* The bounds of a specification: the rows of each table, the handlers in
\* progress together and the balance of an account.
Limits(u, t, p, n, w, b) ==
    [users |-> u, transactions |-> t, pending_purchases |-> p,
     notifications |-> n, inflight |-> w, balance |-> b]

\* The tables stay within the bounds lim.
WithinBounds(db, lim) ==
    /\ Len(db.users) <= lim.users
    /\ Cardinality(DOMAIN db.transactions) <= lim.transactions
    /\ Len(db.pending_purchases) <= lim.pending_purchases
    /\ BagCardinality(db.notifications) <= lim.notifications
    /\ Len(db.airtime_to_cash_requests) <= MaxCashRequests
    /\ \A i \in 1..Len(db.users) : db.users[i].balance <= lim.balance

\* The tables after a statement are those of db.
Commit(db, lim) ==
    /\ WithinBounds(db, lim)
    /\ users' = db.users
    /\ transactions' = db.transactions
    /\ pending_purchases' = db.pending_purchases
    /\ notifications' = db.notifications
    /\ nextTxId' = db.nextTxId
    /\ deposit_verifications' = db.deposit_verifications
    /\ airtime_to_cash_requests' = db.airtime_to_cash_requests
    /\ system_settings' = db.system_settings

\* ----------------------------------------------------------------- Init

Init ==
    /\ users = <<>>
    /\ transactions = <<>>
    /\ pending_purchases = <<>>
    /\ notifications = EmptyBag
    /\ system_settings = <<>>
    /\ nextTxId = 1
    /\ faults = 0
    /\ deposit_verifications = <<>>
    /\ inflight = {}
    /\ airtime_to_cash_requests = <<>>

\* --------------------------------------------------- handlers in progress

\* A handler in progress: the request it handles (route and the fields of
\* its body or path), pc, the source line of the awaited statement it
\* executes next (0: it has answered), and the values its statements have
\* read so far; slot tells requests of equal content apart.
NewCall(route, pc) ==
    [slot |-> CHOOSE s \in 1..(Cardinality(inflight) + 1) :
                  \A c \in inflight : c.slot # s,
     route |-> route, pc |-> pc,
     username |-> "", email |-> "", amount |-> 0, reference |-> <<>>,
     status |-> "", mpesa_code |-> "", id |-> 0, approve |-> FALSE,
     userId |-> 0, balance |-> 0, tx |-> 0, txAmount |-> 0, txCode |-> "",
     bonusThreshold |-> 0, bonusAmount |-> 0, discountRate |-> 0,
     pendingId |-> 0, pendingAmount |-> 0, rate |-> 0, cashAmount |-> 0,
     language |-> "", theme |-> "", title |-> "", isGlobal |-> FALSE,
     verificationCode |-> ""]

\* What a step of a handler leaves: the tables, the handler, the HTTP
\* status and the kind of its JSON answer when the step answers the request
\* (0 and "": it does not), and whether the statement threw.
StepResult(db, call, http, res, thrown) ==
    [db |-> db, call |-> call, http |-> http, res |-> res, thrown |-> thrown]

\* The statement has executed and the handler awaits the statement at pc.
Goto(db, call, pc) == StepResult(db, [call EXCEPT !.pc = pc], 0, "", FALSE)

\* The handler answers the request and ends.
Answer(db, call, http, res) ==
    StepResult(db, [call EXCEPT !.pc = 0], http, res, FALSE)

\* catch (error) { res.status(500).json(...) }: the awaited statement threw.
Caught(db, call) ==
    StepResult(db, [call EXCEPT !.pc = 0], 500, "error", TRUE)

\* What an awaited statement does: "ok" it executes, "throw" it throws;
\* "declined" is what response.json() yields when the provider's answer
\* reports no success.
\*
\* The lines of await fetch(...), which resolves with the response of the
\* provider or throws.
Fetches == {284, 498, 570, 633, 714}

\* The lines of await response.json(), which follows each fetch and yields
\* the answer of the provider or throws.
Bodies == {299, 510, 585, 645, 726}

\* ------------------------------------------------- POST /api/users/register

\* SELECT id FROM users WHERE email = $1
UserIdsByEmail(db, email) ==
    {i \in 1..Len(db.users) : db.users[i].email = email}

RegisterCall(username, email) ==
    [NewCall("register", 89) EXCEPT !.username = username, !.email = email]

RegisterStep(db, c, out) ==
    IF out = "throw" THEN Caught(db, c)
    ELSE CASE c.pc = 89 ->
                IF UserIdsByName(db, c.username) # {}
                THEN Answer(db, c, 400, "username_taken")
                ELSE Goto(db, c, 99)
           [] c.pc = 99 ->
                IF UserIdsByEmail(db, c.email) # {}
                THEN Answer(db, c, 400, "email_taken")
                ELSE Goto(db, c, 110)
           [] c.pc = 110 ->
                Goto(InsertUser(db, c.username, c.email),
                     [c EXCEPT !.userId = Len(db.users) + 1], 118)
           [] c.pc = 118 ->
                Answer(InsertNotification(db, c.userId, "Welcome!"),
                       c, 200, "registered")

\* ---------------------------------------------- POST /api/payments/deposit

DepositCall(username, amount) ==
    [NewCall("deposit", 266) EXCEPT !.username = username, !.amount = amount]

\* pick is the row a SELECT without ORDER BY puts first (0: it returns none).
DepositStep(db, c, out, pick) ==
    IF c.pc = 266 /\ c.amount < MinDeposit
    THEN Answer(db, c, 400, "min_amount")
    ELSE IF out = "throw" THEN Caught(db, c)
    ELSE CASE c.pc = 266 ->
                IF pick = 0 THEN Answer(db, c, 404, "not_found")
                ELSE Goto(db, [c EXCEPT !.userId = pick], 274)
           [] c.pc = 274 ->
                Goto(InsertTransaction(db, c.userId, "deposit", c.amount,
                                       "pending", NullText, FALSE),
                     [c EXCEPT !.tx = db.nextTxId], 284)
           [] c.pc = 284 -> Goto(db, c, 299)
           [] c.pc = 299 ->
                Goto(db, c, IF out = "ok" THEN 303 ELSE 316)
           [] c.pc = 303 ->
                Answer(SetMetadata(SetTxProviderReference(db, c.tx,
                                                          CheckoutId(c.tx)),
                                   c.tx),
                       c, 200, "stk_sent")
           [] c.pc = 316 ->
                Answer(SetMetadata(SetTxStatus(db, c.tx, "failed"), c.tx),
                       c, 400, "provider_failed")

\* ------------------------------------------------- processPendingPurchase

\* The amounts up to 200 and the discount rates of the model for which
\* amount * (1 - discountRate / 100), computed in IEEE-754 doubles as
\* JavaScript computes it, falls just below the whole number that the exact
\* product is (50 * (1 - 34 / 100) is 32.99999999999999); for the rate 10 and
\* the rate 34 no other amount up to 200 is rounded below a whole number.
RoundedBelow == {<<50, 34>>, <<100, 34>>, <<150, 34>>, <<200, 34>>}

\* Math.floor(amount * (1 - discountRate / 100)): the value sent to Statum.
AirtimeValue(amount, discountRate) ==
    LET exact == (amount * (100 - discountRate)) \div 100
    IN  IF <<amount, discountRate>> \in RoundedBelow THEN exact - 1 ELSE exact

\* Every answer of Statum taken for an acceptance.
StatumAnswered(out) == out # "throw"

\* data.status_code === 200
StatumAccepted(out) == out = "ok"

\* The youngest pending row instead of the oldest.
YoungestPending(db, userId) ==
    LET ids == {i \in 1..Len(db.pending_purchases) :
                    /\ db.pending_purchases[i].user_id = userId
                    /\ db.pending_purchases[i].status = "pending"}
    IN  IF ids = {} THEN 0 ELSE CHOOSE i \in ids : \A j \in ids : i >= j

\* SELECT * FROM pending_purchases WHERE user_id = $1 AND status = 'pending'
\* ORDER BY created_at ASC LIMIT 1: the id of the oldest pending row, 0 if none.
OldestPending(db, userId) ==
    LET ids == {i \in 1..Len(db.pending_purchases) :
                    /\ db.pending_purchases[i].user_id = userId
                    /\ db.pending_purchases[i].status = "pending"}
    IN  IF ids = {} THEN 0 ELSE CHOOSE i \in ids : \A j \in ids : i <= j

\* balance >= pending.amount
Covers(balance, amount) == balance >= amount

\* UPDATE pending_purchases SET status = 'completed' WHERE id = $1
CompletePending(db, pendingId) ==
    [db EXCEPT !.pending_purchases[pendingId].status = "completed"]

\* The debit follows whatever Statum answered.
DebitRegardless(out, back) == 730

\* if (data.status_code === 200) { ... }: the statement of the helper that
\* follows the answer of Statum.
AfterStatum(out, back) == IF StatumAccepted(out) THEN 730 ELSE back

\* The helper called by the deposit callback, a statement at a time; back is
\* the statement of the caller that follows the call.  Every error is caught
\* inside the helper, which then returns.
processPendingPurchase(db, c, out, back) ==
    IF out = "throw"
    THEN StepResult(db, [c EXCEPT !.pc = back], 0, "", TRUE)
    ELSE CASE c.pc = 698 ->
                Goto(db, [c EXCEPT !.pendingAmount =
                              db.pending_purchases[c.pendingId].amount], 704)
           [] c.pc = 704 ->
                LET balance == db.users[c.userId].balance
                IN  Goto(db, [c EXCEPT !.balance = balance],
                         IF Covers(balance, c.pendingAmount) THEN 709 ELSE back)
           [] c.pc = 709 ->
                Goto(db, [c EXCEPT !.discountRate =
                              Setting(db, "airtime_discount_rate",
                                      DefaultDiscountRate)], 714)
           [] c.pc = 714 -> Goto(db, c, 726)
           [] c.pc = 726 -> Goto(db, c, AfterStatum(out, back))
           [] c.pc = 730 ->
                Goto(AddBalance(db, c.userId, 0 - c.pendingAmount, 0), c, 736)
           [] c.pc = 736 ->
                Goto(InsertTransaction(db, c.userId, "airtime_purchase",
                                       c.pendingAmount, "success",
                                       StatumRequestId(db.nextTxId), TRUE),
                     c, 743)
           [] c.pc = 743 ->
                Goto(CompletePending(db, c.pendingId), c, 749)
           [] c.pc = 749 ->
                Goto(InsertNotification(db, c.userId,
                                        "Pending Purchase Completed"),
                     c, back)

\* --------------------------------------------- POST /api/callbacks/paynecta

\* Every reported status taken for a success.
AnyStatus == {"success", "completed", "failed"}

\* status === 'success' || status === 'completed'
SuccessStatuses == {"success", "completed"}

\* WHERE provider_reference = $1 OR id::text LIKE $2, with
\* $2 = `%${reference.replace(prefix, '')}%`
RefMatches(db, id, reference, prefix) ==
    \/ /\ db.transactions[id].provider_reference # NullText
       /\ db.transactions[id].provider_reference = reference
    \/ Like(Digits(id), RemoveFirst(reference, prefix))

\* FROM transactions t JOIN users u ON t.user_id = u.id WHERE ...: the rows of
\* the callback's SELECT (a row without a user does not join).
PaynectaRows(db, reference) ==
    {id \in DOMAIN db.transactions :
        /\ db.transactions[id].user_id # 0
        /\ RefMatches(db, id, reference, DepPrefix)}

\* parseFloat(amount || tx.amount)
DepositAmount(amount, txAmount) == IF amount # 0 THEN amount ELSE txAmount

\* A bonus granted only above the threshold.
BonusAboveThreshold(depositAmount, bonusThreshold, bonusAmount) ==
    IF depositAmount > bonusThreshold THEN bonusAmount ELSE 0

\* depositAmount >= bonusThreshold ? bonusAmount : 0
Bonus(depositAmount, bonusThreshold, bonusAmount) ==
    IF depositAmount >= bonusThreshold THEN bonusAmount ELSE 0

\* UPDATE transactions SET status = 'success', mpesa_code = $1, bonus = $2,
\* metadata = metadata || $3::jsonb WHERE id = $4: the keys that the merge
\* adds are none that the model tells apart, and NULL || jsonb is NULL, so
\* the metadata of the model stays as it is.  The same holds for the merge of
\* line 413.
ResolveDeposit(db, id, code, bonus) ==
    [db EXCEPT !.transactions[id].status = "success",
               !.transactions[id].mpesa_code = code,
               !.transactions[id].bonus = bonus]

PaynectaCall(reference, status, code, amount) ==
    [NewCall("paynecta", 357) EXCEPT !.reference = reference,
                                     !.status = status, !.mpesa_code = code,
                                     !.amount = amount]

PaynectaStep(db, c, out, pick) ==
    LET depositAmount == DepositAmount(c.amount, c.txAmount)
        bonus == Bonus(depositAmount, c.bonusThreshold, c.bonusAmount)
    IN  IF c.pc \in {698, 704, 709, 714, 726, 730, 736, 743, 749}
        THEN processPendingPurchase(db, c, out, 405)
        ELSE IF out = "throw" THEN Caught(db, c)
        ELSE CASE c.pc = 357 ->
                    IF pick = 0 THEN Answer(db, c, 200, "not_found")
                    ELSE Goto(db,
                              [c EXCEPT !.tx = pick,
                                        !.userId = db.transactions[pick].user_id,
                                        !.txAmount = db.transactions[pick].amount],
                              IF c.status \in SuccessStatuses THEN 374 ELSE 412)
               [] c.pc = 374 ->
                    Goto(db, [c EXCEPT !.bonusThreshold =
                                  Setting(db, "deposit_bonus_threshold",
                                          DefaultBonusThreshold)], 375)
               [] c.pc = 375 ->
                    Goto(db, [c EXCEPT !.bonusAmount =
                                  Setting(db, "deposit_bonus_amount",
                                          DefaultBonusAmount)], 379)
               [] c.pc = 379 ->
                    Goto(ResolveDeposit(db, c.tx, c.mpesa_code, bonus), c, 387)
               [] c.pc = 387 ->
                    Goto(AddBalance(db, c.userId, depositAmount + bonus, c.tx),
                         c, 393)
               [] c.pc = 393 ->
                    LET pendingId == OldestPending(db, c.userId)
                    IN  Goto(db, [c EXCEPT !.pendingId = pendingId],
                             IF pendingId # 0 THEN 698 ELSE 405)
               [] c.pc = 405 ->
                    Answer(InsertNotification(db, c.userId, "Deposit Successful"),
                           c, 200, "ok")
               [] c.pc = 412 ->
                    Answer(SetTxStatus(db, c.tx, "failed"), c, 200, "ok")

\* ------------------------------------------------- POST /api/airtime/buy

\* SELECT id, balance FROM users WHERE username = $1 AND status = 'active'
ActiveUserIdsByName(db, username) ==
    {i \in UserIdsByName(db, username) : db.users[i].status = "active"}

\* The comparison of the balance check turned round.
InsufficientBalanceInverted(balance, amount) == balance > amount

\* user.balance < amount
InsufficientBalance(balance, amount) == balance < amount

\* UPDATE transactions SET status = 'success', provider_reference = $1,
\* fee = $2, metadata = $3 WHERE id = $4
ResolvePurchase(db, id, requestId) ==
    SetMetadata([db EXCEPT !.transactions[id].status = "success",
                           !.transactions[id].provider_reference = requestId],
                id)

BuyCall(username, amount) ==
    [NewCall("buy", 455) EXCEPT !.username = username, !.amount = amount]

BuyStep(db, c, out, pick) ==
    IF c.pc = 455 /\ c.amount < MinAirtime
    THEN Answer(db, c, 400, "min_amount")
    ELSE IF out = "throw" THEN Caught(db, c)
    ELSE CASE c.pc = 455 ->
                IF pick = 0 THEN Answer(db, c, 404, "not_found")
                ELSE Goto(db, [c EXCEPT !.userId = pick,
                                        !.balance = db.users[pick].balance],
                          465)
           [] c.pc = 465 ->
                Goto(db, [c EXCEPT !.discountRate =
                              Setting(db, "airtime_discount_rate",
                                      DefaultDiscountRate)],
                     IF InsufficientBalance(c.balance, c.amount)
                     THEN 470 ELSE 486)
           [] c.pc = 470 ->
                Answer(InsertPendingPurchase(db, c.userId, c.amount),
                       c, 400, "insufficient")
           [] c.pc = 486 ->
                Goto(InsertTransaction(db, c.userId, "airtime_purchase",
                                       c.amount, "pending", NullText, FALSE),
                     [c EXCEPT !.tx = db.nextTxId], 498)
           [] c.pc = 498 -> Goto(db, c, 510)
           [] c.pc = 510 ->
                Goto(db, c, IF StatumAccepted(out) THEN 514 ELSE 534)
           [] c.pc = 514 ->
                Goto(AddBalance(db, c.userId, 0 - c.amount, c.tx), c, 520)
           [] c.pc = 520 ->
                Answer(ResolvePurchase(db, c.tx, StatumRequestId(c.tx)),
                       c, 200, "sent")
           [] c.pc = 534 ->
                Answer(SetMetadata(SetTxStatus(db, c.tx, "failed"), c.tx),
                       c, 400, "provider_failed")

\* ------------------------------------------------ POST /api/airtime/direct

\* The handler that calls PayNecta without creating its row first.
DirectCallAtFetch(amount) ==
    [NewCall("direct", 570) EXCEPT !.amount = amount]

DirectCall(amount) == [NewCall("direct", 560) EXCEPT !.amount = amount]

DirectStep(db, c, out) ==
    IF c.pc = 560 /\ c.amount < MinAirtime
    THEN Answer(db, c, 400, "min_amount")
    ELSE IF out = "throw" THEN Caught(db, c)
    ELSE CASE c.pc = 560 ->
                Goto(InsertTransaction(db, 0, "direct_purchase", c.amount,
                                       "pending", NullText, FALSE),
                     [c EXCEPT !.tx = db.nextTxId], 570)
           [] c.pc = 570 -> Goto(db, c, 585)
           [] c.pc = 585 ->
                Goto(db, c, IF out = "ok" THEN 588 ELSE 599)
           [] c.pc = 588 ->
                Answer(SetTxProviderReference(db, c.tx, CheckoutId(c.tx)),
                       c, 200, "stk_sent")
           [] c.pc = 599 ->
                Answer(SetTxStatus(db, c.tx, "failed"),
                       c, 400, "provider_failed")

\* --------------------------------------- POST /api/callbacks/direct-airtime

\* SELECT * FROM transactions WHERE provider_reference = $1 OR id::text LIKE $2
DirectRows(db, reference) ==
    {id \in DOMAIN db.transactions : RefMatches(db, id, reference, DirectPrefix)}

\* UPDATE transactions SET status = 'failed', metadata = $1 WHERE id = $2
FailDirect(db, id) ==
    SetMetadata([db EXCEPT !.transactions[id].status = "failed"], id)

\* UPDATE transactions SET status = $s, mpesa_code = $1, metadata = $2 ...
\* WHERE id = $3: the new metadata replaces what the row held.
ResolveDirect(db, id, status, code) ==
    SetMetadata([db EXCEPT !.transactions[id].status = status,
                           !.transactions[id].mpesa_code = code], id)

DirectCallbackCall(reference, status, code) ==
    [NewCall("direct_callback", 615) EXCEPT !.reference = reference,
                                            !.status = status,
                                            !.mpesa_code = code]

DirectCallbackStep(db, c, out, pick) ==
    IF out = "throw" THEN Caught(db, c)
    ELSE CASE c.pc = 615 ->
                IF pick = 0 THEN Answer(db, c, 200, "not_found")
                ELSE Goto(db, [c EXCEPT !.tx = pick,
                                        !.txAmount = db.transactions[pick].amount],
                          IF c.status \in SuccessStatuses THEN 628 ELSE 663)
           [] c.pc = 628 ->
                Goto(db, [c EXCEPT !.discountRate =
                              Setting(db, "airtime_discount_rate",
                                      DefaultDiscountRate)], 633)
           [] c.pc = 633 -> Goto(db, c, 645)
           [] c.pc = 645 ->
                Goto(db, c, IF StatumAccepted(out) THEN 648 ELSE 655)
           [] c.pc = 648 ->
                Answer(ResolveDirect(db, c.tx, "success", c.mpesa_code),
                       c, 200, "ok")
           [] c.pc = 655 ->
                Answer(ResolveDirect(db, c.tx, "failed", c.mpesa_code),
                       c, 200, "ok")
           [] c.pc = 663 ->
                Answer(FailDirect(db, c.tx), c, 200, "ok")

\* ----------------------------------------------- POST /api/verify-deposit

\* The receipt codes of requests, as typed, and mpesa_code.toUpperCase().
ReceiptCodes == {"MP1", "mp1"}
ToUpperCase(code) == IF code = "mp1" THEN "MP1" ELSE code

\* The verifications of a code that an operator has approved.
VerifiedByCode(db, code) ==
    {i \in 1..Len(db.deposit_verifications) :
        /\ db.deposit_verifications[i].mpesa_code = code
        /\ db.deposit_verifications[i].status = "verified"}

\* SELECT * FROM deposit_verifications WHERE mpesa_code = $1
VerificationsByCode(db, code) ==
    {i \in 1..Len(db.deposit_verifications) :
        db.deposit_verifications[i].mpesa_code = code}

\* SELECT * FROM transactions WHERE mpesa_code = $1 AND status = 'success'
SuccessTxByCode(db, code) ==
    {id \in DOMAIN db.transactions :
        /\ db.transactions[id].mpesa_code = code
        /\ db.transactions[id].status = "success"}

\* INSERT INTO deposit_verifications (user_id, mpesa_code, ..., 'pending', ...)
InsertVerification(db, userId, code) ==
    [db EXCEPT !.deposit_verifications =
                   Append(@, [user_id |-> userId, mpesa_code |-> code,
                              amount |-> 0, status |-> "pending"])]

\* INSERT INTO transactions (..., 'deposit', 0, 'pending', 'manual', $2, ...)
InsertManualDeposit(db, userId, code) ==
    [InsertTransaction(db, userId, "deposit", 0, "pending", NullText, FALSE)
        EXCEPT !.transactions[db.nextTxId].mpesa_code = code]

VerifyCall(username, code) ==
    [NewCall("verify", 770) EXCEPT !.username = username, !.mpesa_code = code]

VerifyStep(db, c, out, pick) ==
    LET upper == ToUpperCase(c.mpesa_code)
    IN  IF out = "throw" THEN Caught(db, c)
        ELSE CASE c.pc = 770 ->
                    IF pick = 0 THEN Answer(db, c, 404, "not_found")
                    ELSE Goto(db, [c EXCEPT !.userId = pick], 778)
               [] c.pc = 778 ->
                    IF VerificationsByCode(db, upper) # {}
                    THEN Answer(db, c, 400, "duplicate")
                    ELSE Goto(db, c, 792)
               [] c.pc = 792 ->
                    IF SuccessTxByCode(db, upper) # {}
                    THEN Answer(db, c, 400, "duplicate")
                    ELSE Goto(db, c, 802)
               [] c.pc = 802 ->
                    Goto(InsertVerification(db, c.userId, upper), c, 810)
               [] c.pc = 810 ->
                    Answer(InsertManualDeposit(db, c.userId, upper),
                           c, 200, "submitted")

\* ------------------------------------ PUT /api/admin/verify-deposit/:id

\* UPDATE transactions SET amount = $1, bonus = $2, status = 'success' WHERE id = $3
ApproveDeposit(db, id, amount, bonus) ==
    [db EXCEPT !.transactions[id].amount = amount,
               !.transactions[id].bonus = bonus,
               !.transactions[id].status = "success"]

\* amount >= bonusThreshold ? bonusAmount : 0
VerifyBonus(amount, bonusThreshold, bonusAmount) ==
    IF amount >= bonusThreshold THEN bonusAmount ELSE 0

\* UPDATE users SET balance = balance + $1 WHERE id = $2, which updates no row
\* when no account has the id.
CreditOwner(db, userId, delta, txId) ==
    IF userId \in 1..Len(db.users) THEN AddBalance(db, userId, delta, txId) ELSE db

\* UPDATE deposit_verifications SET amount = $1, status = $s WHERE mpesa_code = $2
\* The verification rows left as they are.
KeepVerifications(db, code, amount, status) == db

SetVerifications(db, code, amount, status) ==
    [db EXCEPT !.deposit_verifications =
        [i \in 1..Len(@) |->
            IF @[i].mpesa_code = code
            THEN [@[i] EXCEPT !.status = status,
                              !.amount = IF status = "verified" THEN amount ELSE @]
            ELSE @[i]]]

AdminVerifyCall(id, amount, approve) ==
    [NewCall("admin_verify", 1120) EXCEPT !.id = id, !.amount = amount,
                                          !.approve = approve]

AdminVerifyStep(db, c, out) ==
    LET bonus == VerifyBonus(c.amount, c.bonusThreshold, c.bonusAmount)
    IN  IF out = "throw" THEN Caught(db, c)
        ELSE CASE c.pc = 1120 ->
                    IF c.id \notin DOMAIN db.transactions
                    THEN Answer(db, c, 404, "not_found")
                    ELSE Goto(db,
                              [c EXCEPT !.tx = c.id,
                                        !.userId = db.transactions[c.id].user_id,
                                        !.txCode = db.transactions[c.id].mpesa_code],
                              IF c.approve THEN 1129 ELSE 1160)
               [] c.pc = 1129 ->
                    Goto(db, [c EXCEPT !.bonusThreshold =
                                  Setting(db, "deposit_bonus_threshold",
                                          DefaultBonusThreshold)], 1130)
               [] c.pc = 1130 ->
                    Goto(db, [c EXCEPT !.bonusAmount =
                                  Setting(db, "deposit_bonus_amount",
                                          DefaultBonusAmount)], 1134)
               [] c.pc = 1134 ->
                    Goto(ApproveDeposit(db, c.tx, c.amount, bonus), c, 1140)
               [] c.pc = 1140 ->
                    Goto(CreditOwner(db, c.userId, c.amount + bonus, c.tx),
                         c, 1146)
               [] c.pc = 1146 ->
                    Goto(SetVerifications(db, c.txCode, c.amount, "verified"),
                         c, 1152)
               [] c.pc = 1152 ->
                    Answer(InsertNotification(db, c.userId, "Deposit Verified"),
                           c, 200, "verified")
               [] c.pc = 1160 ->
                    Goto(SetTxStatus(db, c.tx, "failed"), c, 1161)
               [] c.pc = 1161 ->
                    Answer(SetVerifications(db, c.txCode, 0, "failed"),
                           c, 200, "rejected")

\* ------------------------------------- PUT /api/admin/users/:id/balance

AdminBalanceCall(id, amount) ==
    [NewCall("admin_balance", 1062) EXCEPT !.id = id, !.amount = amount]

AdminBalanceStep(db, c, out) ==
    IF out = "throw" THEN Caught(db, c)
    ELSE CASE c.pc = 1062 ->
                Goto(CreditOwner(db, c.id, c.amount, 0), c, 1068)
           [] c.pc = 1068 ->
                Answer(InsertTransaction(db, c.id, "adjustment", c.amount,
                                         "success", NullText, TRUE),
                       c, 200, "updated")

\* ---------------------------------- POST /api/airtime-to-cash/request

\* amount * (rate / 100), for the amounts and rates whose product the
\* division leaves whole.
CashAmount(amount, rate) == (amount * rate) \div 100

\* INSERT INTO airtime_to_cash_requests (user_id, ..., airtime_amount,
\* cash_amount, cashback_rate, 'pending')
InsertCashRequest(db, userId, amount, rate) ==
    [db EXCEPT !.airtime_to_cash_requests =
        Append(@, [user_id |-> userId, airtime_amount |-> amount,
                   cash_amount |-> CashAmount(amount, rate),
                   status |-> "pending", sambaza_code |-> ""])]

CashRequestCall(username, amount) ==
    [NewCall("cash_request", 833) EXCEPT !.username = username,
                                         !.amount = amount]

CashRequestStep(db, c, out, pick) ==
    IF out = "throw" THEN Caught(db, c)
    ELSE CASE c.pc = 833 ->
                IF Setting(db, "airtime_to_cash_enabled", "") # "true"
                THEN Answer(db, c, 400, "coming_soon")
                ELSE Goto(db, c, 839)
           [] c.pc = 839 ->
                Goto(db, [c EXCEPT !.rate = Setting(db, "airtime_to_cash_rate",
                                                    DefaultCashRate)], 842)
           [] c.pc = 842 ->
                IF pick = 0 THEN Answer(db, c, 404, "user_not_found")
                ELSE Goto(db, [c EXCEPT !.userId = pick], 847)
           [] c.pc = 847 ->
                Answer(InsertCashRequest(db, c.userId, c.amount, c.rate),
                       c, 200, "requested")

\* ------------------------- PUT /api/admin/airtime-to-cash/:id/complete

CashCompleteCall(id) == [NewCall("cash_complete", 1250) EXCEPT !.id = id]

CashCompleteStep(db, c, out) ==
    IF out = "throw" THEN Caught(db, c)
    ELSE CASE c.pc = 1250 ->
                IF c.id \notin 1..Len(db.airtime_to_cash_requests)
                THEN Answer(db, c, 404, "not_found")
                ELSE Goto(db,
                          [c EXCEPT !.userId =
                                        db.airtime_to_cash_requests[c.id].user_id,
                                    !.cashAmount =
                                        db.airtime_to_cash_requests[c.id].cash_amount],
                          1257)
           [] c.pc = 1257 ->
                Goto([db EXCEPT !.airtime_to_cash_requests[c.id].status =
                                    "completed"], c, 1263)
           [] c.pc = 1263 ->
                Goto(InsertTransaction(db, c.userId, "airtime_to_cash",
                                       c.cashAmount, "success", NullText, FALSE),
                     c, 1270)
           [] c.pc = 1270 ->
                Answer(InsertNotification(db, c.userId, "Cash Sent!"),
                       c, 200, "completed")

\* ------------------------------------------ POST /api/callbacks/statum

\* The callback taken as the report of a delivery: the rows of the request
\* marked success.
SetStatumDelivered(db, request_id) ==
    [db EXCEPT !.transactions =
        [id \in DOMAIN @ |->
            IF @[id].provider_reference = request_id
            THEN [@[id] EXCEPT !.status = "success"] ELSE @[id]]]

\* UPDATE transactions SET metadata = metadata || {statum_callback: body}
\* WHERE provider_reference = $2: NULL || jsonb is NULL, so a row whose
\* metadata is NULL keeps it; the others get (or keep) the key.
SetStatumCallback(db, request_id) ==
    [db EXCEPT !.transactions =
        [id \in DOMAIN @ |->
            IF /\ @[id].provider_reference = request_id
               /\ @[id].metadata # NullText
            THEN [@[id] EXCEPT !.metadata = <<"statum_callback">>]
            ELSE @[id]]]

StatumCallbackCall(request_id) ==
    [NewCall("statum", 683) EXCEPT !.reference = request_id]

\* A statement that throws is answered with { success: false }.
StatumCallbackStep(db, c, out) ==
    IF out = "throw"
    THEN StepResult(db, [c EXCEPT !.pc = 0], 200, "error", TRUE)
    ELSE Answer(SetStatumCallback(db, c.reference), c, 200, "ok")

\* ------------------------------------ PUT /api/users/:username/settings

\* A field the request body does not carry, bound as NULL.
Absent == "absent"

\* COALESCE($1, column)
Coalesce(value, column) == IF value = Absent THEN column ELSE value

\* UPDATE users SET language = COALESCE($1, language), theme =
\* COALESCE($2, theme) WHERE username = $3
SetPreferences(db, username, language, theme) ==
    [db EXCEPT !.users =
        [i \in 1..Len(@) |->
            IF @[i].username = username
            THEN [@[i] EXCEPT !.language = Coalesce(language, @),
                              !.theme = Coalesce(theme, @)]
            ELSE @[i]]]

UserSettingsCall(username, language, theme) ==
    [NewCall("user_settings", 204) EXCEPT !.username = username,
                                          !.language = language,
                                          !.theme = theme]

UserSettingsStep(db, c, out) ==
    IF out = "throw" THEN Caught(db, c)
    ELSE Answer(SetPreferences(db, c.username, c.language, c.theme),
                c, 200, "updated")

\* -------------------------------------- PUT /api/notifications/:id/read

\* UPDATE admin_notifications SET is_read = true WHERE id = $1; rows holds
\* the row of that id, or nothing when the table has none.
SetRead(db, rows) ==
    [db EXCEPT !.notifications =
        (@ (-) SetToBag(rows))
        (+) SetToBag({[n EXCEPT !.is_read = TRUE] : n \in rows})]

MarkReadCall == NewCall("mark_read", 245)

MarkReadStep(db, c, out, rows) ==
    IF out = "throw" THEN Caught(db, c)
    ELSE Answer(SetRead(db, rows), c, 200, "ok")

\* --------------------------------------- POST /api/admin/notifications

AdminNotifyCall(userId, title, isGlobal) ==
    [NewCall("admin_notify", 1202) EXCEPT !.userId = userId, !.title = title,
                                          !.isGlobal = isGlobal]

\* INSERT INTO admin_notifications (user_id, title, ...) VALUES
\* (isGlobal ? null : userId, title, ...); user_id 0 is NULL.
AdminNotifyStep(db, c, out) ==
    IF out = "throw" THEN Caught(db, c)
    ELSE Answer(InsertNotification(db, IF c.isGlobal THEN 0 ELSE c.userId,
                                   c.title),
                c, 200, "sent")

\* ----------------------------------- POST /api/airtime-to-cash/verify

\* UPDATE airtime_to_cash_requests SET sambaza_code = $1, status =
\* 'verified' WHERE id = $2
SetSambazaCode(db, requestId, code) ==
    [db EXCEPT !.airtime_to_cash_requests =
        [i \in 1..Len(@) |->
            IF i = requestId
            THEN [@[i] EXCEPT !.sambaza_code = code, !.status = "verified"]
            ELSE @[i]]]

CashVerifyCall(requestId, verificationCode) ==
    [NewCall("cash_verify", 876) EXCEPT !.id = requestId,
                                        !.verificationCode = verificationCode]

CashVerifyStep(db, c, out) ==
    IF out = "throw" THEN Caught(db, c)
    ELSE Answer(SetSambazaCode(db, c.id, c.verificationCode),
                c, 200, "submitted")

\* ------------------------------------ PUT /api/admin/users/:id/status

\* UPDATE users SET status = $1 WHERE id = $2
SetUserStatus(db, id, status) ==
    [db EXCEPT !.users =
        [i \in 1..Len(@) |->
            IF i = id THEN [@[i] EXCEPT !.status = status] ELSE @[i]]]

UserStatusCall(id, status) ==
    [NewCall("user_status", 1049) EXCEPT !.id = id, !.status = status]

UserStatusStep(db, c, out) ==
    IF out = "throw" THEN Caught(db, c)
    ELSE Answer(SetUserStatus(db, c.id, c.status), c, 200, "updated")

\* ------------------------------------------------------- one statement

\* The awaited statement at c.pc of handler c, and the code up to the next
\* await.
Step(db, c, out, pick) ==
    CASE c.route = "register" -> RegisterStep(db, c, out)
      [] c.route = "deposit" -> DepositStep(db, c, out, pick)
      [] c.route = "paynecta" -> PaynectaStep(db, c, out, pick)
      [] c.route = "buy" -> BuyStep(db, c, out, pick)
      [] c.route = "direct" -> DirectStep(db, c, out)
      [] c.route = "direct_callback" -> DirectCallbackStep(db, c, out, pick)
      [] c.route = "verify" -> VerifyStep(db, c, out, pick)
      [] c.route = "admin_verify" -> AdminVerifyStep(db, c, out)
      [] c.route = "admin_balance" -> AdminBalanceStep(db, c, out)
      [] c.route = "cash_request" -> CashRequestStep(db, c, out, pick)
      [] c.route = "cash_complete" -> CashCompleteStep(db, c, out)
      [] c.route = "statum" -> StatumCallbackStep(db, c, out)
      [] c.route = "user_settings" -> UserSettingsStep(db, c, out)
      [] c.route = "mark_read" -> MarkReadStep(db, c, out, pick)
      [] c.route = "admin_notify" -> AdminNotifyStep(db, c, out)
      [] c.route = "cash_verify" -> CashVerifyStep(db, c, out)
      [] c.route = "user_status" -> UserStatusStep(db, c, out)

\* The user row a request selects: 0 when its SELECT returns none.
UserChoice(ids) == IF ids = {} THEN {0} ELSE ids

\* The row a callback works on: 0 when its SELECT returns none.
RowChoice(rows) == IF rows = {} THEN {0} ELSE rows

\* The notification row an id names: none when the table has no such row.
NotificationChoice(db) ==
    {{}} \cup {{n} : n \in BagToSet(db.notifications)}

\* rows[0] of the SELECT at c.pc: any row of the result, the statement
\* having no ORDER BY.
Picks(db, c) ==
    CASE c.pc \in {266, 770, 842} -> UserChoice(UserIdsByName(db, c.username))
      [] c.pc = 455 -> UserChoice(ActiveUserIdsByName(db, c.username))
      [] c.pc = 357 -> RowChoice(PaynectaRows(db, c.reference))
      [] c.pc = 615 -> RowChoice(DirectRows(db, c.reference))
      [] c.pc = 245 -> NotificationChoice(db)
      [] OTHER -> {0}

\* What the statement at c.pc can do: a fetch resolves or throws;
\* response.json() yields an answer that accepts or declines, or throws; a
\* query executes, or throws when may says that the statements of the
\* database may throw.
Outcomes(c, may) ==
    IF c.pc \in Fetches THEN {"ok", "throw"}
    ELSE IF c.pc \in Bodies THEN ProviderOutcomes
    ELSE IF may /\ faults < MaxFaults THEN {"ok", "throw"} ELSE {"ok"}

\* Handler c executes its next statement; the tables and the handlers in
\* progress stay within the bounds lim.
Handle(c, may, lim) ==
    \E out \in Outcomes(c, may), pick \in Picks(DB, c) :
      LET s == Step(DB, c, out, pick)
          calls == (inflight \ {c})
                   \cup (IF s.call.pc = 0 THEN {} ELSE {s.call})
      IN  /\ Cardinality(calls) <= lim.inflight
          /\ Commit(s.db, lim)
          /\ inflight' = calls
          /\ faults' = faults + (IF s.thrown /\ c.pc \notin Fetches \cup Bodies
                                 THEN 1 ELSE 0)

\* A handler in progress executes its next statement.
Continue(may, lim) == \E c \in inflight : Handle(c, may, lim)

\* A request is received: its handler runs up to the end of its first
\* awaited statement.
Register(username, email, may, lim) ==
    Handle(RegisterCall(username, email), may, lim)

Deposit(username, amount, may, lim) ==
    Handle(DepositCall(username, amount), may, lim)

PaynectaCallback(reference, status, code, amount, may, lim) ==
    Handle(PaynectaCall(reference, status, code, amount), may, lim)

AirtimeBuy(username, amount, may, lim) ==
    Handle(BuyCall(username, amount), may, lim)

AirtimeDirect(amount, may, lim) == Handle(DirectCall(amount), may, lim)

DirectAirtimeCallback(reference, status, code, may, lim) ==
    Handle(DirectCallbackCall(reference, status, code), may, lim)

VerifyDeposit(username, code, lim) ==
    Handle(VerifyCall(username, code), FALSE, lim)

AdminVerifyDeposit(id, amount, approve, lim) ==
    Handle(AdminVerifyCall(id, amount, approve), FALSE, lim)

AdminBalance(id, amount, lim) ==
    Handle(AdminBalanceCall(id, amount), FALSE, lim)

CashRequest(username, amount, lim) ==
    Handle(CashRequestCall(username, amount), FALSE, lim)

CashComplete(id, lim) == Handle(CashCompleteCall(id), FALSE, lim)

StatumCallback(request_id, lim) ==
    Handle(StatumCallbackCall(request_id), FALSE, lim)

UserSettings(username, language, theme, lim) ==
    Handle(UserSettingsCall(username, language, theme), FALSE, lim)

MarkRead(lim) == Handle(MarkReadCall, FALSE, lim)

AdminNotify(userId, title, isGlobal, lim) ==
    Handle(AdminNotifyCall(userId, title, isGlobal), FALSE, lim)

CashVerify(requestId, verificationCode, lim) ==
    Handle(CashVerifyCall(requestId, verificationCode), FALSE, lim)

UserStatus(id, status, lim) == Handle(UserStatusCall(id, status), FALSE, lim)

\* --------------------------------------- PUT /api/admin/settings/:key

\* The handler, which awaits one statement: await updateSystemSetting(key,
\* value), then res.json({ success: true, message: 'Setting updated' }),
\* whether or not the UPDATE found a row; the catch answers 500.
AdminSettingRun(db, key, value, out) ==
    IF out = "throw"
    THEN [db |-> db, http |-> 500, res |-> "error"]
    ELSE [db |-> updateSystemSetting(db, key, value),
          http |-> 200, res |-> "updated"]

\* The request is received and handled.
AdminSetting(key, value, lim) ==
    /\ Commit(AdminSettingRun(DB, key, value, "ok").db, lim)
    /\ UNCHANGED <<inflight, faults>>

\* ------------------------------------------------------------ requests

\* The inputs of a specification: the username and the email registered,
\* the usernames and the amounts of the deposit and purchase requests, and
\* the references, statuses and body amounts (0: the body carries none) of
\* the callbacks.
Inputs(names, deposits, airtimes, refs, statuses, amounts) ==
    [names |-> names, deposits |-> deposits, airtimes |-> airtimes,
     refs |-> refs, statuses |-> statuses, amounts |-> amounts]

\* The requests of the accounts and the callbacks of PayNecta, each handled
\* a statement at a time, the statements of the handlers in progress taken
\* in any order.  may says whether a query may throw.
Requests(in, may, lim) ==
    \/ \E u \in RegisterNames, e \in Emails : Register(u, e, may, lim)
    \/ \E u \in in.names, a \in in.deposits : Deposit(u, a, may, lim)
    \/ \E r \in in.refs, s \in in.statuses :
         \E c \in MpesaCodes, a \in in.amounts :
           PaynectaCallback(r, s, c, a, may, lim)
    \/ \E u \in in.names, a \in in.airtimes : AirtimeBuy(u, a, may, lim)
    \/ Continue(may, lim)

\* The requests and the callbacks of the direct purchases, paid from the
\* phone and owned by no account.
DirectRequests(amounts, refs, statuses, may, lim) ==
    \/ \E a \in amounts : AirtimeDirect(a, may, lim)
    \/ \E r \in refs, s \in statuses, c \in MpesaCodes :
         DirectAirtimeCallback(r, s, c, may, lim)
    \/ Continue(may, lim)

\* ------------------------------------------------ admin authentication

\* process.env.ADMIN_PASSWORD || '3462Abel@#', as text.
AdminPassword == <<"3462Abel@#">>

\* Buffer.from(text).toString('base64'): an injective encoding, kept as the
\* encoded text under its tag.
Base64(text) == <<"base64">> \o text

\* Date.now() at the logins of the model.
LoginTimes == {1}

\* POST /api/admin/login: the token of a login with the admin password, no
\* token (401) for any other password.
AdminLoginRun(password, now) ==
    IF password = AdminPassword
    THEN [http |-> 200, token |-> Base64(password \o Digits(now))]
    ELSE [http |-> 401, token |-> <<>>]

\* The x-admin-token header of a request: absent, a text no login issued,
\* the encoding of another password, a token of a login.
RequestTokens ==
    {<<>>, <<"x">>, Base64(<<"guess">> \o Digits(1))}
    \cup {AdminLoginRun(AdminPassword, t).token : t \in LoginTimes}

\* adminAuth: if (!token) 401, else next().
adminAuth(token) == token # <<>>

\* app.put(path, adminAuth, handler): a request the middleware rejects is
\* answered 401 and reaches no handler, next() runs the handler up to the
\* end of its first awaited statement.
WithAdminAuth(token, handler) ==
    IF adminAuth(token) THEN handler ELSE UNCHANGED vars

\* ------------------------------------------------- operators' requests

\* The amounts of the balance adjustments and of the approvals.
AdjustAmounts == {10, -5}
ApproveAmounts == {10}
UserStatuses == {"active", "suspended"}

\* The manual verifications and the routes of the operators: approval and
\* rejection of a verification, adjustment of a balance.
AdminRequests(codes, adjustments, lim) ==
    \/ \E u \in RegisterNames, code \in codes : VerifyDeposit(u, code, lim)
    \/ \E id \in 1..lim.transactions, a \in ApproveAmounts :
         \E approve \in BOOLEAN : AdminVerifyDeposit(id, a, approve, lim)
    \/ \E i \in 1..Len(users), a \in adjustments : AdminBalance(i, a, lim)

\* The routes that are no part of the ledger.
OutsideLedger(lim) ==
    \/ StatumCallback(CheckoutId(1), lim)
    \/ \E u \in RegisterNames : UserSettings(u, "sw", Absent, lim)
    \/ MarkRead(lim)
    \/ \E i \in 1..Len(users) : AdminNotify(i, "Notice", TRUE, lim)
    \/ AdminSetting("airtime_to_cash_enabled", "true", lim)
    \/ \E u \in RegisterNames : CashRequest(u, 10, lim)
    \/ \E id \in 1..MaxCashRequests : CashVerify(id, "SC1", lim)
    \/ \E id \in 1..MaxCashRequests : CashComplete(id, lim)
    \/ \E i \in 1..MaxUsers, st \in UserStatuses : UserStatus(i, st, lim)
\* ------------------------------------------------------- specifications

\* The ledger routes with a deposit of 10, resolved by a callback that
\* reports success or failure, and purchases of 5.
SpecInputs ==
    Inputs({"u1", "u2"}, {5, 10}, {4, 5}, {DepRef(1)},
           {"success", "failed"}, {0})

SpecLimits ==
    Limits(MaxUsers, MaxTx, MaxPending, MaxNotifications, MaxInflight,
           MaxBalance)

\* The requests, with a database whose statements all execute.
Next == Requests(SpecInputs, FALSE, SpecLimits)

Spec == Init /\ [][Next]_vars

\* One account, its deposit of 10 resolved by a success callback and its
\* purchases of 5, within the smallest tables that hold them.
BaseInputs ==
    Inputs({"u1"}, {10}, {5}, {DepRef(1)}, {"success"}, {0})

BaseLimits ==
    Limits(MaxUsers, MaxTx, MaxCreditPending, MaxConcNotifications,
           MaxInflight, MaxBalance)

\* The callbacks whose body carries an amount (50, the bonus threshold).
CreditInputs ==
    Inputs({"u1"}, {10}, {5}, {DepRef(1)}, {"success"}, {0, 50})

CreditLimits ==
    Limits(MaxUsers, MaxTx, MaxCreditPending, MaxNotifications, MaxInflight,
           MaxBalance)

CreditNext == Requests(CreditInputs, FALSE, CreditLimits)

CreditSpec == Init /\ [][CreditNext]_vars

\* Two requests on one balance: a deposit of 10 and purchases of the whole
\* balance.
ConcInputs ==
    Inputs({"u1"}, {10}, {10}, {DepRef(1)}, {"success"}, {0})

ConcLimits ==
    Limits(MaxUsers, MaxConcTx, MaxCreditPending, MaxConcNotifications,
           MaxInflight, MaxBalance)

ConcNext == Requests(ConcInputs, FALSE, ConcLimits)

ConcSpec == Init /\ [][ConcNext]_vars

\* The callbacks that carry the checkout id of PayNecta's answer, or a
\* reference whose digits are the id of a row that is no deposit.
RefInputs ==
    Inputs({"u1"}, {10}, {5}, {CheckoutId(1), DepRef(2)}, {"success"}, {0})

RefNext == Requests(RefInputs, FALSE, CreditLimits)

RefSpec == Init /\ [][RefNext]_vars

\* The three routes that create a row and call a provider: deposits,
\* purchases from the balance and direct purchases.
StartNext ==
    \/ Requests(BaseInputs, FALSE, BaseLimits)
    \/ DirectRequests({5}, {DirectRef(1)}, {"failed"}, FALSE, BaseLimits)

StartSpec == Init /\ [][StartNext]_vars

\* Two deposits of 10 and a purchase of 10 queued: two callbacks that find
\* the same purchase pending.
SettleInputs ==
    Inputs({"u1"}, {10}, {10}, {DepRef(1), DepRef(2)}, {"success"}, {0})

SettleLimits ==
    Limits(MaxUsers, MaxSettleTx, MaxCreditPending, MaxConcNotifications,
           MaxInflight, MaxSettleBalance)

SettleNext == Requests(SettleInputs, FALSE, SettleLimits)

SettleSpec == Init /\ [][SettleNext]_vars

\* The direct purchases and the callbacks of the first, beside an account
\* and the approvals of the operators' verify-deposit route, which takes the
\* id of any transaction.
DirectNext ==
    \/ \E u \in RegisterNames, e \in Emails :
         Register(u, e, FALSE, BaseLimits)
    \/ DirectRequests({4, 5}, {DirectRef(1)},
                      {"success", "completed", "failed"}, FALSE, BaseLimits)
    \/ \E id \in 1..MaxTx, a \in ApproveAmounts :
         AdminVerifyDeposit(id, a, TRUE, BaseLimits)

DirectSpec == Init /\ [][DirectNext]_vars

\* A deposit, its callback and a purchase, with a database whose statements
\* may throw.
FaultNext == Requests(BaseInputs, TRUE, BaseLimits)

FaultSpec == Init /\ [][FaultNext]_vars

\* The operator sends updates of the bonus threshold and of the discount
\* rate while deposits and purchases are handled.
SettingChanges ==
    {<<"deposit_bonus_threshold", 10>>, <<"airtime_discount_rate", 20>>}

SettingLimits ==
    Limits(MaxUsers, MaxTx, MaxCreditPending, MaxConcNotifications,
           MaxInflight, MaxSettleBalance)

SettingNext ==
    \/ Requests(BaseInputs, FALSE, SettingLimits)
    \/ \E kv \in SettingChanges : AdminSetting(kv[1], kv[2], SettingLimits)

SettingSpec == Init /\ [][SettingNext]_vars

\* The receipt codes submitted for verification, beside a deposit resolved
\* by its callback.
VerifyNext ==
    \/ Requests(BaseInputs, FALSE, BaseLimits)
    \/ \E u \in Usernames, code \in ReceiptCodes :
         VerifyDeposit(u, code, BaseLimits)

VerifySpec == Init /\ [][VerifyNext]_vars

\* The operators' routes, beside an account with a queued purchase.
AdminNext ==
    \/ \E u \in RegisterNames, e \in Emails :
         Register(u, e, FALSE, BaseLimits)
    \/ \E u \in RegisterNames : AirtimeBuy(u, 5, FALSE, BaseLimits)
    \/ AdminRequests({"MP1"}, AdjustAmounts, BaseLimits)
    \/ Continue(FALSE, BaseLimits)

AdminSpec == Init /\ [][AdminNext]_vars

\* The routes outside the ledger, beside an account and its deposit.
OpsNext ==
    \/ \E u \in RegisterNames, e \in Emails :
         Register(u, e, FALSE, BaseLimits)
    \/ \E u \in RegisterNames : Deposit(u, 10, FALSE, BaseLimits)
    \/ OutsideLedger(BaseLimits)
    \/ Continue(FALSE, BaseLimits)

OpsSpec == Init /\ [][OpsNext]_vars

\* An account suspended by the operator while it deposits and buys.
SuspendNext ==
    \/ Requests(BaseInputs, FALSE, BaseLimits)
    \/ \E i \in 1..MaxUsers, st \in UserStatuses :
         UserStatus(i, st, BaseLimits)

SuspendSpec == Init /\ [][SuspendNext]_vars

\* Registrations that share a username or an email.
RegInputs == {<<"u1", "e1">>, <<"u1", "e2">>, <<"u2", "e1">>}

RegLimits ==
    Limits(MaxRegUsers, MaxTx, MaxCreditPending, MaxNotifications, MaxInflight,
           MaxBalance)

RegNext ==
    \/ \E in \in RegInputs : Register(in[1], in[2], FALSE, RegLimits)
    \/ Continue(FALSE, RegLimits)

RegSpec == Init /\ [][RegNext]_vars

\* The routes of the operators with the token each request carries, beside
\* the requests that give them something to act on.
AuthNext ==
    \/ \E u \in RegisterNames, e \in Emails :
         Register(u, e, FALSE, BaseLimits)
    \/ \E token \in RequestTokens :
         \E i \in 1..Len(users) :
           WithAdminAuth(token, AdminBalance(i, 10, BaseLimits))
    \/ \E token \in RequestTokens :
         \E i \in 1..MaxUsers, st \in UserStatuses :
           WithAdminAuth(token, UserStatus(i, st, BaseLimits))
    \/ \E token \in RequestTokens :
         \E id \in 1..MaxTx, a \in ApproveAmounts, approve \in BOOLEAN :
           WithAdminAuth(token, AdminVerifyDeposit(id, a, approve, BaseLimits))
    \/ \E token \in RequestTokens :
         WithAdminAuth(token,
                       AdminSetting("deposit_bonus_threshold", 10, BaseLimits))
    \/ Continue(FALSE, BaseLimits)

AuthSpec == Init /\ [][AuthNext]_vars
\* ------------------------------------------------------------- properties

\* The tables a statement leaves as they are.
TablesUnchanged ==
    UNCHANGED <<users, transactions, pending_purchases, notifications,
                nextTxId, deposit_verifications, airtime_to_cash_requests,
                system_settings>>

\* The properties speak of the statements the handlers execute.  A step of
\* handler c is a step that takes c, as it stands, out of the handlers in
\* progress: it executes the statement c awaits.
StepOf(c) == c \in inflight /\ c \notin inflight'

\* A step in which a handler of the route executes its statement at line pc.
Does(c, route, pc) == c.route = route /\ c.pc = pc /\ StepOf(c)

\* The statement handler c awaits after its step; 0 when the step ends it.
NextPc(c) ==
    IF \E d \in inflight' : d.slot = c.slot
    THEN (CHOOSE d \in inflight' : d.slot = c.slot).pc ELSE 0

\* What handler c has read once its step is done (c does not end).
After(c) == CHOOSE d \in inflight' : d.slot = c.slot

\* The amount a deposit callback is to credit for row id: the amount of its
\* body (0: the body carries none), else the amount of the row.
CallbackDeposit(id, a) == IF a # 0 THEN a ELSE transactions[id].amount

\* bonus(x) of the specification, with the settings in force.
SpecBonus(x) ==
    IF x >= Setting(DB, "deposit_bonus_threshold", DefaultBonusThreshold)
    THEN Setting(DB, "deposit_bonus_amount", DefaultBonusAmount) ELSE 0

\* The pending queued purchases of account u, by id.
Queued(u) ==
    {i \in 1..Len(pending_purchases) :
        /\ pending_purchases[i].user_id = u
        /\ pending_purchases[i].status = "pending"}

\* The oldest pending queued purchase of account u (Queued(u) is not empty).
OldestQueued(u) == CHOOSE i \in Queued(u) : \A j \in Queued(u) : i <= j

\* A deposit row of at least the minimum amount.
ValidDeposit(id) ==
    /\ transactions[id].type = "deposit"
    /\ transactions[id].amount >= MinDeposit

Terminal == {"success", "failed"}

\* Every account keeps its balance.
BalancesUnchanged ==
    \A i \in 1..Len(users) : users'[i].balance = users[i].balance

\* Every account but u keeps its balance.
OtherBalancesUnchanged(u) ==
    \A i \in 1..Len(users) : i # u => users'[i].balance = users[i].balance

\* The statements of the deposit callback that resolve and credit row c.tx
\* with the amount d: the UPDATE of line 379 makes a pending row success
\* with the bonus of d, the UPDATE of line 387 adds d and that bonus to the
\* balance of the owner.
CreditsDeposit(c, d) ==
    /\ (c.pc = 379 /\ transactions[c.tx].status = "pending")
       => /\ transactions'[c.tx].status = "success"
          /\ transactions'[c.tx].bonus = SpecBonus(d)
    /\ c.pc = 387
       => /\ users'[c.userId].balance = users[c.userId].balance + d + SpecBonus(d)
          /\ OtherBalancesUnchanged(c.userId)

\* C1: for every deposit transaction with amount a >= 10, the PayNecta
\* callback that reports success makes the pending row success and credits
\* the owner with exactly d + bonus(d), d being the amount of the callback
\* body when it carries one and a otherwise: its crediting statement
\* increases the balance by that sum.
C1_Credit ==
    [][\A c \in inflight :
         (/\ c.route = "paynecta" /\ c.pc \in {379, 387} /\ StepOf(c)
          /\ ValidDeposit(c.tx))
         => CreditsDeposit(c, CallbackDeposit(c.tx, c.amount))
      ]_vars

\* C1 as stated: the success callback of a deposit of amount a >= 10
\* increases the owner's balance by exactly a + bonus(a).
C1_AsStated ==
    [][\A c \in inflight :
         (/\ c.route = "paynecta" /\ c.pc \in {379, 387} /\ StepOf(c)
          /\ ValidDeposit(c.tx))
         => CreditsDeposit(c, transactions[c.tx].amount)
      ]_vars

\* A deposit of 10 resolved by its callback, no handler in progress: the row
\* is success without bonus and the account that held 0 holds 10.
C1_Witness ==
    /\ inflight = {}
    /\ \E id \in DOMAIN transactions :
        /\ transactions[id].type = "deposit"
        /\ transactions[id].status = "success"
        /\ transactions[id].amount = 10
        /\ transactions[id].bonus = 0
        /\ transactions[id].applied
        /\ users[transactions[id].user_id].balance = 10

\* C2: a PayNecta callback delivered again with the same reference changes
\* no balance: the crediting statement of a callback is executed only for a
\* row that no earlier delivery has credited.
C2_RepeatedDelivery ==
    [][\A c \in inflight :
         Does(c, "paynecta", 387) => ~transactions[c.tx].applied
      ]_vars

\* C3: the status of a transaction changes only from pending to success or
\* from pending to failed; a terminal status never changes again.
C3_StatusTransitions ==
    [][\A id \in DOMAIN transactions :
         transactions'[id].status # transactions[id].status
         => /\ transactions[id].status = "pending"
            /\ transactions'[id].status \in Terminal
      ]_vars

\* C4: in every reachable state, those reached when a handler fails between
\* two of its statements included, a deposit is success if and only if its
\* credit has been added to the balance, and an airtime purchase is success
\* if and only if its debit has been subtracted.  Stated of the states in
\* which no handler is in progress.
C4_Atomic ==
    inflight = {}
    => \A id \in DOMAIN transactions :
         transactions[id].type \in {"deposit", "airtime_purchase"}
         => (transactions[id].status = "success" <=> transactions[id].applied)

\* The handler c ends with this step.
Ends(c) == c \in inflight /\ \A d \in inflight' : d.slot # c.slot

\* C5: when the provider call of deposit-initiate, airtime-buy or
\* airtime-direct fails at the transport level, the transaction row created
\* for the request is failed when the handler has returned: a handler that
\* ends where it awaited the provider (its fetch, or the response.json()
\* that follows) leaves its row failed.
C5_TransportFailure ==
    [][\A c \in inflight :
         (/\ c.route \in {"deposit", "buy", "direct"}
          /\ c.pc \in Fetches \cup Bodies
          /\ Ends(c))
         => transactions'[c.tx].status = "failed"
      ]_vars

\* C6: an airtime-buy request for an amount of at least 5 by an active account
\* whose balance is smaller than the amount is rejected; the balance is
\* unchanged, exactly one pending queued purchase of that amount is created
\* and no transaction row is created: having read such a balance the handler
\* goes to the INSERT of line 470, which appends the queued purchase, and
\* answers 400; its statements change nothing else.
C6_InsufficientBalance ==
    [][\A c \in inflight :
         (/\ c.route = "buy" /\ c.pc \in {465, 470} /\ StepOf(c)
          /\ c.balance < c.amount)
         => /\ c.amount >= MinAirtime
            /\ BalancesUnchanged
            /\ transactions' = transactions
            /\ c.pc = 465 => /\ NextPc(c) = 470
                             /\ pending_purchases' = pending_purchases
            /\ c.pc = 470
               => /\ Ends(c)
                  /\ Step(DB, c, "ok", 0).http = 400
                  /\ Step(DB, c, "ok", 0).res = "insufficient"
                  /\ pending_purchases' =
                         Append(pending_purchases,
                                [user_id |-> c.userId, amount |-> c.amount,
                                 status |-> "pending"])
      ]_vars

\* A purchase of 5 queued for an account that holds less, with no
\* transaction row in the table and no handler in progress.
C6_Witness ==
    /\ inflight = {}
    /\ Len(pending_purchases) = 1
    /\ pending_purchases[1].status = "pending"
    /\ pending_purchases[1].amount = 5
    /\ users[pending_purchases[1].user_id].balance < 5
    /\ DOMAIN transactions = {}

\* C7: an airtime-buy request whose Statum call fails (an answer other than
\* 200, or a transport failure) leaves every balance as it was: no debit is
\* applied for the request.  The handler debits in its statement of line
\* 514 only, and a call that fails never leads there: a fetch (line 498)
\* that throws ends the handler, one that resolves leads to response.json()
\* (line 510), and an answer that is not an acceptance leads from there to
\* the statement of line 534, which marks the row failed, or ends the
\* handler.
C7_ProviderFailure ==
    [][\A c \in inflight :
         (c.route = "buy" /\ StepOf(c))
         => /\ c.pc # 514 => BalancesUnchanged
            /\ c.pc = 498
               => /\ NextPc(c) \in {0, 510}
                  /\ Step(DB, c, "throw", 0).call.pc = 0
                  /\ Step(DB, c, "throw", 0).db = DB
            /\ c.pc = 510
               => \A out \in ProviderOutcomes \ {"ok"} :
                    /\ Step(DB, c, out, 0).call.pc \in {0, 534}
                    /\ Step(DB, c, out, 0).db = DB
            /\ c.pc = 534
               => /\ transactions'[c.tx].status = "failed"
                  /\ ~transactions'[c.tx].applied
      ]_vars

\* A purchase that Statum declined: the row is failed, no debit was applied
\* for it and the account still holds the 10 of its deposit.
C7_Witness ==
    /\ inflight = {}
    /\ \E id \in DOMAIN transactions :
        /\ transactions[id].type = "airtime_purchase"
        /\ transactions[id].status = "failed"
        /\ ~transactions[id].applied
        /\ users[transactions[id].user_id].balance = 10

\* C8: a PayNecta or direct-airtime callback for a transaction that is
\* already success or failed is acknowledged and does nothing: when the
\* statement with which a callback resolves its row (lines 379, 412, 648,
\* 655, 663) is executed for a row that is success or failed, it leaves the
\* transactions as they are and the handler ends there, without a credit, a
\* settlement or a notification.
C8_TerminalNoOp ==
    [][\A c \in inflight :
         (/\ c.route \in {"paynecta", "direct_callback"}
          /\ c.pc \in {379, 412, 648, 655, 663}
          /\ StepOf(c)
          /\ transactions[c.tx].status \in Terminal)
         => /\ transactions' = transactions
            /\ Ends(c)
      ]_vars

\* The external reference row t was created with.
ExternalReference(t) ==
    CASE transactions[t].type = "deposit" -> DepRef(t)
      [] transactions[t].type = "direct_purchase" -> DirectRef(t)
      [] OTHER -> NullText

\* The rows whose external reference or stored correlation id is r.
ExactMatches(r) ==
    {t \in DOMAIN transactions :
        \/ ExternalReference(t) = r
        \/ transactions[t].provider_reference = r}

\* What a callback with reference r may change: the rows that match r
\* exactly, the balances of their owners, and nothing if no row does.
OnlyExactMatches(r) ==
    /\ \A t \in DOMAIN transactions \ ExactMatches(r) :
           transactions'[t].status = transactions[t].status
    /\ \A u \in 1..Len(users) :
           (\A t \in ExactMatches(r) : transactions[t].user_id # u)
           => users'[u].balance = users[u].balance
    /\ ExactMatches(r) = {}
       => UNCHANGED <<users, transactions, pending_purchases, notifications>>

\* C9: a callback with reference r resolves only the transaction whose
\* external reference (DEP-<id> / DIRECT-<id>) or stored correlation id is r:
\* every other transaction keeps its status, the accounts that own no such
\* transaction keep their balance, and a callback whose reference matches no
\* transaction changes nothing.
C9_ExactReference ==
    [][\A c \in inflight :
         (c.route \in {"paynecta", "direct_callback"} /\ StepOf(c))
         => OnlyExactMatches(c.reference)
      ]_vars

\* What the deposit callback c does with the queue of its account once it
\* has credited it.  Its SELECT of line 393 takes the oldest pending
\* purchase, and ends the attempt when there is none; the helper reads the
\* balance (line 704) and goes on to Statum only if the balance covers the
\* purchase; after the call (the fetch of line 714 and the response.json()
\* of line 726) it debits the amount of that purchase (line 730), records
\* the purchase (line 736) and marks that purchase completed (line 743).
\* With declinedStays the outcome of the call decides: the fetch that
\* resolves leads to the answer and the answer that accepts to the debit,
\* while a fetch that throws, an answer that declines and an answer that
\* cannot be read each lead straight to line 405 with every table as it
\* was.  No other statement of the callback touches a balance or a queued
\* purchase.
QueueSettlement(c, declinedStays) ==
    /\ c.pc = 393
       => IF Queued(c.userId) = {} THEN NextPc(c) = 405
          ELSE /\ NextPc(c) = 698
               /\ After(c).pendingId = OldestQueued(c.userId)
    /\ c.pc = 704
       => NextPc(c) =
              IF users[c.userId].balance
                     >= pending_purchases[c.pendingId].amount
              THEN 709 ELSE 405
    /\ c.pc = 714
       => IF declinedStays
          THEN /\ NextPc(c) \in {726, 405}
               /\ Step(DB, c, "ok", 0).call.pc = 726
               /\ Step(DB, c, "ok", 0).db = DB
               /\ Step(DB, c, "throw", 0).call.pc = 405
               /\ Step(DB, c, "throw", 0).db = DB
          ELSE NextPc(c) = 726
    /\ c.pc = 726
       => IF declinedStays
          THEN /\ NextPc(c) \in {730, 405}
               /\ Step(DB, c, "ok", 0).call.pc = 730
               /\ \A out \in ProviderOutcomes \ {"ok"} :
                    /\ Step(DB, c, out, 0).call.pc = 405
                    /\ Step(DB, c, out, 0).db = DB
               /\ NextPc(c) = 405 => TablesUnchanged
          ELSE NextPc(c) = 730
    /\ c.pc = 730
       => /\ users'[c.userId].balance =
               users[c.userId].balance - pending_purchases[c.pendingId].amount
          /\ NextPc(c) = 736
    /\ c.pc = 736 => NextPc(c) = 743
    /\ c.pc \notin {387, 730} => BalancesUnchanged
    /\ pending_purchases' =
           IF c.pc = 743
           THEN [pending_purchases EXCEPT ![c.pendingId].status = "completed"]
           ELSE pending_purchases

\* C10: a deposit callback that reports success attempts exactly one queued
\* purchase of the account, the oldest pending one: if the balance it reads
\* after the credit covers it, it is sent to Statum; when Statum accepts it
\* the callback debits its amount and marks it completed, and when Statum
\* declines it or the call fails the callback goes straight to its last
\* statement, the purchase pending and the balance undebited; if the balance
\* is smaller, nothing is sent and it stays pending.  No younger queued
\* purchase is touched.
C10_OldestQueuedPurchase ==
    [][\A c \in inflight :
         (c.route = "paynecta" /\ StepOf(c)) => QueueSettlement(c, TRUE)
      ]_vars

\* C10 as stated: a covered oldest queued purchase is sent, debited and
\* completed, whatever Statum answers.
C10_AsStated ==
    [][\A c \in inflight :
         (c.route = "paynecta" /\ StepOf(c)) => QueueSettlement(c, FALSE)
      ]_vars

\* Two purchases were queued; a deposit callback settled the older one, which
\* is completed and has its success row, and left the younger one pending.
C10_Witness ==
    /\ inflight = {}
    /\ Len(pending_purchases) = 2
    /\ pending_purchases[1].status = "completed"
    /\ pending_purchases[2].status = "pending"
    /\ \E id \in DOMAIN transactions :
           /\ transactions[id].type = "airtime_purchase"
           /\ transactions[id].status = "success"
           /\ transactions[id].amount = pending_purchases[1].amount
    /\ \E id \in DOMAIN transactions :
           /\ transactions[id].type = "deposit"
           /\ transactions[id].status = "success"

\* C12: balance mutations on one account are serializable: whatever the
\* interleaving of the requests, the final balance and the purchases that
\* succeeded are those of some serial execution; two concurrent buys of a
\* against a balance b with a <= b < 2a cannot both succeed.  A serial
\* execution of deposits, callbacks and buys never debits more than the
\* balance holds, so once every request has been answered no balance is
\* below 0.
C12_Serializable ==
    inflight = {} => \A i \in 1..Len(users) : users[i].balance >= 0

\* C13: in every reachable state the balance of every account is at least 0.
C13_NonNegativeBalance ==
    \A i \in 1..Len(users) : users[i].balance >= 0

\* The references under which PayNecta reports the payment opened for row id:
\* the reference the handler sent, or the checkout id of PayNecta's answer.
CallbackRefs(id) == {DepRef(id), CheckoutId(id)}

\* C14: if the success callback of a deposit is handled after the pending
\* row was inserted and before the deposit handler has processed PayNecta's
\* synchronous answer, the deposit still resolves correctly: while the
\* handler awaits the answer (lines 284, 299) or its UPDATE, a success
\* callback that carries
\* a reference of the payment finds the row of the deposit and goes on to
\* resolve it.
C14_CallbackBeforeAnswer ==
    \A call \in inflight :
      (call.route = "deposit" /\ call.pc \in {284, 299, 303})
      => \A r \in CallbackRefs(call.tx), code \in MpesaCodes :
           LET callback == PaynectaCall(r, "success", code, 0)
           IN  \A pick \in Picks(DB, callback) :
                 /\ Step(DB, callback, "ok", pick).call.tx = call.tx
                 /\ Step(DB, callback, "ok", pick).call.pc = 374

\* The handler d was received in this step, which executed its first
\* statement.
Started(d) == d \in inflight' /\ \A c \in inflight : c.slot # d.slot

\* Exactly one row is added to the transactions: row id, pending, of the
\* type and the amount given.
OnePendingRow(id, type, amount) ==
    /\ id \notin DOMAIN transactions
    /\ DOMAIN transactions' = DOMAIN transactions \cup {id}
    /\ \A t \in DOMAIN transactions : transactions'[t] = transactions[t]
    /\ transactions'[id].type = type
    /\ transactions'[id].amount = amount
    /\ transactions'[id].status = "pending"

\* The type of the row each route creates and the lines of its INSERT and
\* of its provider call.
RowType(route) ==
    CASE route = "deposit" -> "deposit"
      [] route = "buy" -> "airtime_purchase"
      [] route = "direct" -> "direct_purchase"

InsertLine(route) ==
    CASE route = "deposit" -> 274 [] route = "buy" -> 486 [] route = "direct" -> 560

FetchLine(route) ==
    CASE route = "deposit" -> 284 [] route = "buy" -> 498 [] route = "direct" -> 570

\* The handlers that have passed their checks and are calling the provider.
Calling ==
    {c \in inflight :
        c.route \in {"deposit", "buy", "direct"} /\ c.pc = FetchLine(c.route)}

\* C15, the rows: a deposit-initiate, airtime-buy or airtime-direct handler
\* reaches its provider call only through its INSERT, which adds exactly one
\* pending row of the request's type and amount, the row the handler then
\* works on; no other statement of the handler adds a row.
C15_OnePendingRow ==
    [][/\ \A c \in inflight :
            (c.route \in {"deposit", "buy"} /\ StepOf(c))
            => IF c.pc = InsertLine(c.route)
               THEN /\ NextPc(c) = FetchLine(c.route)
                    /\ OnePendingRow(After(c).tx, RowType(c.route), c.amount)
               ELSE /\ NextPc(c) # FetchLine(c.route)
                    /\ DOMAIN transactions' = DOMAIN transactions
       /\ \A d \in inflight' :
            /\ (Started(d) /\ d.route = "direct")
               => /\ d.pc = FetchLine(d.route)
                  /\ OnePendingRow(d.tx, RowType(d.route), d.amount)
            /\ (Started(d) /\ d.route \in {"deposit", "buy"})
               => /\ d.pc # FetchLine(d.route)
                  /\ transactions' = transactions
       /\ \A c \in inflight :
            (c.route = "direct" /\ StepOf(c))
            => DOMAIN transactions' = DOMAIN transactions
      ]_vars

\* C15, the references: while a handler calls its provider the row of the
\* request exists, no other handler calls for the same row, and the
\* references DEP-<id> and DIRECT-<id> of two rows differ.
C15_RowBeforeCall ==
    /\ \A c \in Calling : c.tx \in DOMAIN transactions
    /\ \A c, d \in Calling : c # d => c.tx # d.tx
    /\ \A i, j \in DOMAIN transactions :
         i # j => DepRef(i) # DepRef(j) /\ DirectRef(i) # DirectRef(j)

\* C15: for every accepted deposit-initiate, airtime-buy (with sufficient
\* balance) and airtime-direct request, exactly one transaction row with
\* status pending is created, before the provider call of the request is
\* made, and the reference sent to the provider differs for every two
\* transactions.
C15_RowThenCall == C15_OnePendingRow /\ [](C15_RowBeforeCall)

\* A deposit handler and a buy handler are both calling their provider, each
\* for the row it has inserted.
C15_Witness ==
    /\ \E c \in Calling : c.route = "deposit"
    /\ \E c \in Calling : c.route = "buy"
    /\ \A c \in Calling : transactions[c.tx].type = RowType(c.route)

\* No account is named u.
UnknownAccount(u) == \A j \in 1..Len(users) : users[j].username # u

\* The first statement of request c answers it with an error and changes no
\* table: the handler ends there, before any INSERT and any provider call.
Rejected(c) ==
    \A pick \in Picks(DB, c), out \in Outcomes(c, FALSE) :
      LET s == Step(DB, c, out, pick)
      IN  /\ s.http \in {400, 404}
          /\ s.db = DB
          /\ s.call.pc = 0
          /\ ~s.thrown

\* C16: a deposit-initiate request with amount < 10 or an unknown account,
\* and an airtime-buy request with amount < 5 or an unknown account, is
\* rejected with an error and has no side effect: no transaction row, no
\* queued purchase, no balance change, and the provider is not called.
C16_RejectedWithoutEffect ==
    \A u \in SpecInputs.names :
      /\ \A a \in SpecInputs.deposits :
           (a < 10 \/ UnknownAccount(u)) => Rejected(DepositCall(u, a))
      /\ \A a \in SpecInputs.airtimes :
           (a < 5 \/ UnknownAccount(u)) => Rejected(BuyCall(u, a))

\* An account with a balance, a transaction and a queued purchase exists, and
\* the four rejected requests are answered with their errors.
C16_Witness ==
    /\ Len(users) = 1
    /\ users[1].balance >= 10
    /\ DOMAIN transactions # {}
    /\ Len(pending_purchases) > 0
    /\ Step(DB, DepositCall("u1", 5), "ok", 1).res = "min_amount"
    /\ Step(DB, DepositCall("u2", 10), "ok", 0).res = "not_found"
    /\ Step(DB, BuyCall("u1", 4), "ok", 1).res = "min_amount"
    /\ Step(DB, BuyCall("u2", 5), "ok", 0).res = "not_found"

\* C17: a deposit callback that reports a status other than success or
\* completed for a pending deposit marks that transaction failed and leaves
\* every balance, every queued purchase and the notifications unchanged:
\* the only statement such a callback executes after its SELECT is the
\* UPDATE of line 412.
C17_FailedCallback ==
    [][\A c \in inflight :
         (/\ c.route = "paynecta" /\ StepOf(c)
          /\ c.status \notin {"success", "completed"})
         => /\ c.pc = 412
            /\ Ends(c)
            /\ transactions' = [transactions EXCEPT ![c.tx].status = "failed"]
            /\ BalancesUnchanged
            /\ pending_purchases' = pending_purchases
            /\ notifications' = notifications
      ]_vars

\* A deposit that PayNecta accepted (it carries the checkout id) has been
\* marked failed, while its owner holds a queued purchase.
C17_Witness ==
    /\ inflight = {}
    /\ \E id \in DOMAIN transactions :
        /\ transactions[id].type = "deposit"
        /\ transactions[id].status = "failed"
        /\ transactions[id].provider_reference = CheckoutId(id)
        /\ Len(pending_purchases) > 0

\* C24: the PayNecta deposit callback credits a balance only for a
\* transaction of kind deposit: a success callback whose reference matches a
\* transaction of another kind never increases any balance and never changes
\* that transaction.
C24_OnlyDepositsCredited ==
    [][\A c \in inflight :
         (/\ c.route = "paynecta" /\ StepOf(c)
          /\ transactions[c.tx].type # "deposit")
         => /\ \A i \in 1..Len(users) : users'[i].balance <= users[i].balance
            /\ transactions'[c.tx] = transactions[c.tx]
      ]_vars

\* C25: each queued purchase is executed at most once, over any interleaving
\* of the deposit callbacks of its account: a callback debits the balance
\* for a queued purchase only while the purchase is pending and no other
\* callback has debited for it.
C25_SettledOnce ==
    [][\A c \in inflight :
         Does(c, "paynecta", 730)
         => /\ pending_purchases[c.pendingId].status = "pending"
            /\ \A d \in inflight \ {c} :
                 ~(/\ d.route = "paynecta"
                   /\ d.pendingId = c.pendingId
                   /\ d.pc \in {736, 743, 749})
      ]_vars

\* What transaction id contributes to the balance of account u: the amount
\* and the bonus of a deposit in status success, the amount of an adjustment,
\* minus the amount of an airtime purchase in status success.
LedgerEntry(id, u) ==
    LET tx == transactions[id]
    IN  IF tx.user_id # u THEN 0
        ELSE IF tx.type = "deposit" /\ tx.status = "success"
        THEN tx.amount + tx.bonus
        ELSE IF tx.type = "adjustment" THEN tx.amount
        ELSE IF tx.type = "airtime_purchase" /\ tx.status = "success"
        THEN 0 - tx.amount
        ELSE 0

RECURSIVE LedgerSum(_, _)
LedgerSum(ids, u) ==
    IF ids = {} THEN 0
    ELSE LET id == CHOOSE i \in ids : TRUE
         IN  LedgerEntry(id, u) + LedgerSum(ids \ {id}, u)

\* C26: ledger conservation: in every state in which no handler is in
\* progress, the balance of each account equals the sum of amount + bonus
\* over its deposits in status success, plus the sum of its adjustments,
\* minus the sum of the amounts of its airtime purchases in status success.
C26_LedgerConservation ==
    inflight = {}
    => \A u \in 1..Len(users) :
         users[u].balance = LedgerSum(DOMAIN transactions, u)

\* C29: when the airtime provider call made while settling a queued purchase
\* fails (an answer other than 200, or a thrown error), the queued purchase
\* stays pending, the balance keeps the full deposit credit with no debit,
\* and the deposit callback still marks the deposit success, records its
\* success notification and acknowledges success: the call (the fetch of
\* line 714, the response.json() of line 726) changes no table, a failed
\* call leads the callback, whose row is success and credited since its
\* statements of lines 379 and 387, straight to the statement of line 405,
\* and that statement records the notification and answers 200.
C29_SettlementFailure ==
    [][\A c \in inflight :
         (c.route = "paynecta" /\ StepOf(c))
         => /\ c.pc \in {714, 726}
               => UNCHANGED <<users, transactions, pending_purchases,
                              notifications>>
            /\ c.pc = 714
               => /\ NextPc(c) \in {405, 726}
                  /\ Step(DB, c, "throw", 0).call.pc = 405
                  /\ Step(DB, c, "throw", 0).db = DB
            /\ c.pc = 726
               => \A out \in ProviderOutcomes \ {"ok"} :
                    /\ Step(DB, c, out, 0).call.pc = 405
                    /\ Step(DB, c, out, 0).db = DB
            /\ c.pc = 405
               => /\ Ends(c)
                  /\ Step(DB, c, "ok", 0).http = 200
                  /\ Step(DB, c, "ok", 0).res = "ok"
                  /\ notifications' =
                       notifications
                       (+) SetToBag({[user_id |-> c.userId,
                                      title |-> "Deposit Successful",
                                      is_read |-> FALSE]})
                  /\ UNCHANGED <<users, transactions, pending_purchases>>
            /\ NextPc(c) = 387 => transactions'[c.tx].status = "success"
            /\ NextPc(c) = 393
               => users'[c.userId].balance =
                      users[c.userId].balance
                      + CallbackDeposit(c.tx, c.amount)
                      + SpecBonus(CallbackDeposit(c.tx, c.amount))
      ]_vars

\* The only queued purchase of the account is still pending although the
\* balance, credited by a deposit that is success, covers it, and the
\* callback has recorded its notification and ended.
C29_Witness ==
    /\ inflight = {}
    /\ Len(pending_purchases) = 1
    /\ pending_purchases[1].status = "pending"
    /\ users[pending_purchases[1].user_id].balance >= pending_purchases[1].amount
    /\ \E id \in DOMAIN transactions :
         /\ transactions[id].type = "deposit"
         /\ transactions[id].status = "success"
         /\ transactions[id].user_id = pending_purchases[1].user_id
    /\ BagIn([user_id |-> pending_purchases[1].user_id,
              title |-> "Deposit Successful", is_read |-> FALSE],
             notifications)

\* C30: a direct purchase becomes success only by the statement of line 648
\* of a direct-airtime callback that reported the payment successful, a
\* statement reached only when the airtime disbursement was answered with
\* result 200, whatever other request is handled; when the payment succeeded
\* and the disbursement failed the row becomes failed: an answer with another
\* result leads to line 655, which marks it failed, and a callback that ends
\* at the disbursement call (lines 633, 645) leaves it failed; and no
\* statement of a direct-airtime request or callback changes the balance of
\* any account.
C30_DirectPurchase ==
    [][/\ \A id \in DOMAIN transactions :
            (/\ transactions[id].type = "direct_purchase"
             /\ transactions[id].status # "success"
             /\ transactions'[id].status = "success")
            => \E c \in inflight :
                 /\ Does(c, "direct_callback", 648)
                 /\ c.tx = id
                 /\ c.status \in {"success", "completed"}
       /\ \A c \in inflight :
            (c.route = "direct_callback" /\ StepOf(c))
            => /\ NextPc(c) = 648 => c.pc = 645
               /\ NextPc(c) = 645 => c.pc = 633
               /\ c.pc \in {633, 645} => c.status \in {"success", "completed"}
               /\ c.pc = 645
                  => /\ Step(DB, c, "ok", 0).call.pc = 648
                     /\ Step(DB, c, "declined", 0).call.pc = 655
               /\ c.pc = 655 => transactions'[c.tx].status = "failed"
               /\ (c.pc \in {633, 645} /\ Ends(c))
                  => transactions'[c.tx].status = "failed"
       /\ \A c \in inflight :
            (c.route \in {"direct", "direct_callback"} /\ StepOf(c))
            => BalancesUnchanged
       /\ \A d \in inflight' :
            (d.route \in {"direct", "direct_callback"} /\ Started(d))
            => users' = users
      ]_vars

\* C11: a pending queued purchase of an account is attempted every time the
\* balance of the account increases, whatever operation increased it: a
\* statement that increases the balance of an account with a pending queued
\* purchase is the credit of a deposit callback (line 387), whose handler
\* goes on to select the oldest pending purchase of the account and to call
\* processPendingPurchase for it.
C11_AttemptOnEveryIncrease ==
    [][\A u \in 1..Len(users) :
         (users'[u].balance > users[u].balance /\ Queued(u) # {})
         => \E c \in inflight :
              /\ Does(c, "paynecta", 387)
              /\ c.userId = u
              /\ NextPc(c) = 393
      ]_vars

\* C18: a successful airtime-buy of amount a under discount rate d decreases
\* the balance by exactly a, and the value sent to the provider is exactly
\* a * (1 - d): the call of line 498 whose answer (line 510) is an
\* acceptance carries that value, and the UPDATE of line 514 subtracts a.
C18_DebitAndValue ==
    [][\A c \in inflight :
         /\ (Does(c, "buy", 510) /\ NextPc(c) = 514)
            => AirtimeValue(c.amount, c.discountRate) * 100
                 = c.amount * (100 - c.discountRate)
         /\ Does(c, "buy", 514)
            => users'[c.userId].balance = users[c.userId].balance - c.amount
      ]_vars

\* The deposit callback c is about to read a setting (the bonus threshold
\* at line 374, the discount rate of the settlement at line 709) and the
\* operator's update of that setting is handled first and answered 200
\* 'Setting updated': the callback reads the value the operator set.
ReadsUpdatedSetting(c) ==
    \A kv \in SettingChanges :
      LET upd == AdminSettingRun(DB, kv[1], kv[2], "ok")
          read == Step(upd.db, c, "ok", 0).call
      IN  upd.http = 200
          => /\ (c.pc = 374 /\ kv[1] = "deposit_bonus_threshold")
                => read.bonusThreshold = kv[2]
             /\ (c.pc = 709 /\ kv[1] = "airtime_discount_rate")
                => read.discountRate = kv[2]

\* The values a resolving handler reads are those the table yields at that
\* statement, and the row and the balance are written with them.
SettingsReadWhenResolved ==
    [][\A c \in inflight :
         LET d == DepositAmount(c.amount, c.txAmount)
             bonus == IF d >= c.bonusThreshold THEN c.bonusAmount ELSE 0
         IN  /\ Does(c, "paynecta", 374)
                => After(c).bonusThreshold =
                       Setting(DB, "deposit_bonus_threshold",
                               DefaultBonusThreshold)
             /\ Does(c, "paynecta", 375)
                => After(c).bonusAmount =
                       Setting(DB, "deposit_bonus_amount", DefaultBonusAmount)
             /\ (Does(c, "paynecta", 709) \/ Does(c, "buy", 465))
                => After(c).discountRate =
                       Setting(DB, "airtime_discount_rate", DefaultDiscountRate)
             /\ Does(c, "paynecta", 379)
                => transactions'[c.tx].bonus = bonus
             /\ Does(c, "paynecta", 387)
                => users'[c.userId].balance
                     = users[c.userId].balance + d + bonus
      ]_vars

\* C19: the bonus threshold, the bonus amount and the discount rate used to
\* resolve a transaction are the values of the settings when the transaction
\* is resolved, not those of its creation: a setting the operator changed
\* after the transaction was created, the update answered 200, is read with
\* its new value by the callback that resolves the transaction; the callback
\* and the settlement read each setting from the table while they run
\* (lines 374, 375, 709), the buy handler at line 465, and the row and the
\* balance are written with the values just read.
C19_SettingsAtResolution ==
    /\ [](\A c \in inflight : c.route = "paynecta" => ReadsUpdatedSetting(c))
    /\ SettingsReadWhenResolved

\* C20: a deposit-verify submission whose receipt code already resolved a
\* transaction (a verification with the code exists, or a transaction with
\* the code is success) is rejected and creates no verification request and
\* no transaction; any other submission of an existing account creates
\* exactly one pending verification request and one pending manual deposit
\* of amount 0.  The codes are compared in upper case.
C20_DuplicateReceipt ==
    [][\A c \in inflight :
         (c.route = "verify" /\ StepOf(c)) =>
           LET code == ToUpperCase(c.mpesa_code)
               known == \E v \in 1..Len(deposit_verifications) :
                           deposit_verifications[v].mpesa_code = code
               resolved == \E id \in DOMAIN transactions :
                              /\ transactions[id].mpesa_code = code
                              /\ transactions[id].status = "success"
           IN  /\ (c.pc = 778 /\ known)
                  => /\ Ends(c) /\ TablesUnchanged
                     /\ Step(DB, c, "ok", 0).http = 400
               /\ (c.pc = 778 /\ ~known)
                  => NextPc(c) = 792 /\ TablesUnchanged
               /\ (c.pc = 792 /\ resolved)
                  => /\ Ends(c) /\ TablesUnchanged
                     /\ Step(DB, c, "ok", 0).http = 400
               /\ (c.pc = 792 /\ ~resolved)
                  => NextPc(c) = 802 /\ TablesUnchanged
               /\ c.pc = 802
                  => /\ NextPc(c) = 810
                     /\ deposit_verifications' =
                          Append(deposit_verifications,
                                 [user_id |-> c.userId, mpesa_code |-> code,
                                  amount |-> 0, status |-> "pending"])
                     /\ transactions' = transactions
                     /\ BalancesUnchanged
               /\ c.pc = 810
                  => /\ Ends(c)
                     /\ OnePendingRow(nextTxId, "deposit", 0)
                     /\ transactions'[nextTxId].mpesa_code = code
                     /\ transactions'[nextTxId].user_id = c.userId
                     /\ deposit_verifications' = deposit_verifications
                     /\ BalancesUnchanged
      ]_vars

\* The receipt MP1 submitted twice, the second time in lower case: one
\* pending verification request and one pending manual deposit exist, and
\* the handler of a further submission is rejected at its first test.
C20_Witness ==
    /\ Len(deposit_verifications) = 1
    /\ deposit_verifications[1].status = "pending"
    /\ deposit_verifications[1].mpesa_code = "MP1"
    /\ \E id \in DOMAIN transactions :
        /\ transactions[id].type = "deposit"
        /\ transactions[id].status = "pending"
        /\ transactions[id].amount = 0
        /\ transactions[id].mpesa_code = "MP1"
    /\ \E c \in inflight :
        c.route = "verify" /\ c.pc = 778 /\ c.mpesa_code = "mp1"

\* A deposit row created by a deposit-verify submission.
ManualDeposit(id) ==
    /\ transactions[id].type = "deposit"
    /\ transactions[id].user_id \in 1..Len(users)
    /\ \E v \in 1..Len(deposit_verifications) :
         deposit_verifications[v].mpesa_code = transactions[id].mpesa_code

\* The tables after handler c has executed all its statements, one after
\* the other, every provider accepting.
RECURSIVE Run(_, _)
Run(db, c) ==
    IF c.pc = 0 THEN db
    ELSE LET s == Step(db, c, "ok", CHOOSE p \in Picks(db, c) : TRUE)
         IN  Run(s.db, s.call)

\* C21: the approval of a manual deposit verification with amount a has the
\* same effect on the ledger as the automatic reconciliation of a successful
\* deposit of amount a under the same settings: the balance is credited by
\* a + bonus(a), the transaction becomes success with that bonus, and the
\* same dependent actions follow (the oldest queued purchase of the account
\* is attempted, with the same result for the balance and the queue).
C21_ApprovalAsReconciliation ==
    \A id \in DOMAIN transactions, a \in ApproveAmounts :
      (inflight = {} /\ ManualDeposit(id)
       /\ transactions[id].status = "pending")
      => LET u == transactions[id].user_id
             adm == Run(DB, AdminVerifyCall(id, a, TRUE))
             cb == Run(DB, PaynectaCall(DepRef(id), "success",
                                        transactions[id].mpesa_code, a))
         IN  /\ adm.transactions[id].status = "success"
             /\ adm.transactions[id].bonus = SpecBonus(a)
             /\ cb.transactions[id].status = "success"
             /\ cb.transactions[id].bonus = SpecBonus(a)
             /\ adm.pending_purchases = cb.pending_purchases
             /\ adm.users[u].balance = cb.users[u].balance

\* C22: an admin rejection of a manual deposit verification sets the
\* verification request and its underlying transaction to failed and leaves
\* every balance unchanged: a rejection goes to the UPDATE of line 1160,
\* which makes the row failed, and then to the UPDATE of line 1161, which
\* makes every verification request of the row's receipt code failed.
C22_RejectionFailsBoth ==
    [][/\ \A id \in DOMAIN transactions, a \in ApproveAmounts :
            Step(DB, AdminVerifyCall(id, a, FALSE), "ok", 0).call.pc = 1160
       /\ \A c \in inflight :
            /\ Does(c, "admin_verify", 1160)
               => /\ NextPc(c) = 1161
                  /\ transactions' =
                       [transactions EXCEPT ![c.tx].status = "failed"]
                  /\ deposit_verifications' = deposit_verifications
                  /\ BalancesUnchanged
            /\ Does(c, "admin_verify", 1161)
               => /\ Ends(c)
                  /\ Len(deposit_verifications') = Len(deposit_verifications)
                  /\ \A v \in 1..Len(deposit_verifications) :
                       deposit_verifications'[v].status =
                         IF deposit_verifications[v].mpesa_code = c.txCode
                         THEN "failed" ELSE deposit_verifications[v].status
                  /\ transactions' = transactions
                  /\ BalancesUnchanged
      ]_vars

\* A rejected manual deposit of an account that holds a balance: the row and
\* its verification request are failed, the balance is still there.
C22_Witness ==
    /\ inflight = {}
    /\ \E id \in DOMAIN transactions :
        /\ ManualDeposit(id)
        /\ transactions[id].status = "failed"
        /\ \E v \in 1..Len(deposit_verifications) :
             /\ deposit_verifications[v].mpesa_code = transactions[id].mpesa_code
             /\ deposit_verifications[v].status = "failed"
        /\ users[transactions[id].user_id].balance > 0

\* Every transaction row that exists keeps its status.
StatusesKept ==
    \A id \in DOMAIN transactions :
      /\ id \in DOMAIN transactions'
      /\ transactions'[id].status = transactions[id].status

\* A statement of a handler outside the ledger that is in progress.
OutsideLedgerStep(lim) ==
    \E c \in inflight :
      /\ c.route \in {"cash_request", "cash_complete"}
      /\ Handle(c, FALSE, lim)


\* C23: the operations outside the ledger (the Statum callback, the user
\* settings update, marking a notification read, the admin notification, the
\* settings update, the airtime-to-cash request, verification and completion,
\* the user status update) leave every account balance and the status of
\* every existing transaction unchanged, in each of their statements.
C23_OutsideLedger ==
    [][(OutsideLedger(BaseLimits) \/ OutsideLedgerStep(BaseLimits))
       => (BalancesUnchanged /\ StatusesKept)]_vars

\* The operations have acted on an account with a deposit: the row carries
\* the callback of Statum, a notification is read, the language is set and
\* the account is suspended; the airtime-to-cash request, answered 400 as
\* long as airtime_to_cash_enabled has no row, has left no request to verify
\* or complete.
C23_Witness ==
    /\ inflight = {}
    /\ Len(users) = 1
    /\ users[1].status = "suspended"
    /\ users[1].language = "sw"
    /\ \E id \in DOMAIN transactions :
         /\ transactions[id].type = "deposit"
         /\ transactions[id].status = "pending"
         /\ transactions[id].metadata = <<"statum_callback">>
    /\ airtime_to_cash_requests = <<>>
    /\ system_settings = <<>>
    /\ \E n \in BagToSet(notifications) : n.is_read

\* The receipt code on whose behalf handler c credits.
CreditedCode(c) == IF c.route = "admin_verify" THEN c.txCode ELSE c.mpesa_code

\* C27: one M-Pesa receipt code credits an account at most once across both
\* reconciliation paths: the crediting statement of an approval (line 1140)
\* or of a success callback (line 387) is executed for a receipt code only
\* when no transaction carrying the code has been credited before.
C27_ReceiptCreditedOnce ==
    [][\A c \in inflight :
         ((Does(c, "admin_verify", 1140) \/ Does(c, "paynecta", 387))
          /\ CreditedCode(c) \in MpesaCodes)
         => ~\E id \in DOMAIN transactions :
               /\ transactions[id].mpesa_code = CreditedCode(c)
               /\ transactions[id].applied
      ]_vars

\* C28: no balance debit is performed for an account while its status is
\* suspended: an airtime-buy request of a suspended account is rejected
\* without effect, and a queued purchase of an account suspended after
\* queuing is not settled while the account is suspended: the settlement
\* neither goes on to call the provider (the fetch of line 714, started by
\* the step of line 709) nor debits (line 730).
C28_NoDebitWhileSuspended ==
    [][/\ \A u \in RegisterNames :
            (\A i \in UserIdsByName(DB, u) : users[i].status = "suspended")
            => Rejected(BuyCall(u, 5))
       /\ \A c \in inflight :
            (c.route = "paynecta" /\ c.pc \in {709, 730} /\ StepOf(c))
            => users[c.userId].status # "suspended"
      ]_vars

\* No two accounts share a username or an email.
UniqueAccounts ==
    \A i, j \in 1..Len(users) :
      i # j => /\ users[i].username # users[j].username
               /\ users[i].email # users[j].email

\* C31: after any sequence or interleaving of registration requests no two
\* accounts have the same username and no two accounts have the same email;
\* a registration with a taken username or email creates no account and no
\* notification, and every created account starts with balance 0 and status
\* active.
C31_UniqueAccounts ==
    /\ [](UniqueAccounts)
    /\ [][/\ \A in \in RegInputs :
               UserIdsByName(DB, in[1]) # {}
               => Rejected(RegisterCall(in[1], in[2]))
          /\ \A c \in inflight :
               /\ (Does(c, "register", 99) /\ UserIdsByEmail(DB, c.email) # {})
                  => Ends(c) /\ TablesUnchanged
               /\ Does(c, "register", 110)
                  => /\ Len(users') = Len(users) + 1
                     /\ users'[Len(users')].balance = 0
                     /\ users'[Len(users')].status = "active"
         ]_vars

\* The tokens the successful logins of the model issue.
IssuedTokens ==
    {AdminLoginRun(AdminPassword, t).token : t \in LoginTimes}

\* A request of an admin operation that carries a token no login issued,
\* handled up to its first statement.
ForgedAdminRequest ==
    \E token \in RequestTokens \ IssuedTokens :
      \/ \E i \in 1..Len(users) :
           WithAdminAuth(token, AdminBalance(i, 10, BaseLimits))
      \/ \E i \in 1..MaxUsers, st \in UserStatuses :
           WithAdminAuth(token, UserStatus(i, st, BaseLimits))
      \/ \E id \in 1..MaxTx, a \in ApproveAmounts, approve \in BOOLEAN :
           WithAdminAuth(token, AdminVerifyDeposit(id, a, approve, BaseLimits))
      \/ WithAdminAuth(token,
                       AdminSetting("deposit_bonus_threshold", 10, BaseLimits))

\* C32: an admin operation (balance adjustment, user status change,
\* verify-deposit, settings update) takes effect only for a request carrying
\* a token issued by a successful login with the admin password: a request
\* with any other token, or none, changes no state.
C32_AdminTokenRequired ==
    [][~ForgedAdminRequest]_vars
=============================================================================
